---- MODULE Spec2Model ----
(***************************************************************************)
(* Model of docktail's convergence engine: one reconciliation cycle of     *)
(* tailscale.Client.ReconcileServices (diff, withdraw, add/update, funnel   *)
(* reconciliation, control-plane sync) and the shutdown cleanup, run        *)
(* against a model of the `tailscale` CLI and of the control-plane API.     *)
(*                                                                          *)
(* Strings that the code slices, prefixes or searches (service ids, listen  *)
(* ports, map keys, host:port keys) are sequences of one-character strings. *)
(* Strings that are only compared or switched on (protocols, CLI flags,     *)
(* command outcomes) are TLA+ strings.  A destination URL is the sequence   *)
(* of the pieces fmt.Sprintf joins.                                         *)
(***************************************************************************)
EXTENDS Integers, Sequences, FiniteSets, TLC

VARIABLES
    daemon,        \* `tailscale serve status --json`: Services map of the daemon
    funnels,       \* `tailscale funnel status --json`: AllowFunnel host:port keys
    remote,        \* control plane: service ids that have a definition
    apiKey,        \* Client.apiKey ("" = no credential)
    pool,          \* the containers that exist on this host
    desired,       \* desiredServices of the running/last cycle (list order)
    current,       \* currentServices read at the start of the cycle
    toRemove,      \* keys of toRemove not yet processed
    toAdd,         \* keys of toAdd not yet processed
    failCount,     \* failCount of the add loop
    curFunnels,    \* currentFunnels read by reconcileFunnels / cleanup
    funnelTodo,    \* entries of the funnel loop in progress not yet processed
    syncTodo,      \* service names syncServiceDefinitions has not yet synced
    syncFailed,    \* `failed` of syncServiceDefinitions
    cmds,          \* CLI commands issued in the running/last cycle, in order
    http,          \* control-plane requests issued in the running/last cycle
    faults,        \* operations of this cycle that met a non-ok response
    statusOk,      \* the serve status of this cycle was read and parsed
    repeat,        \* this cycle re-runs the desired list of a clean cycle
    result,        \* return value of the last finished cycle
    pc,            \* position of the process
    rpc,           \* Reconciler.Run: position of the loop driver
    inflight,      \* Reconcile calls that are executing
    evq,           \* container events the event stream holds, oldest first
    tick,          \* the ticker channel holds a tick
    cancelled,     \* ctx of Run is done
    streamErr,     \* the error channel of the event stream holds an error
    cycle,         \* Reconcile calls started so far
    followups,     \* for each event-triggered cycle, the event it was run for
    rerr,          \* the Reconcile call that returned last returned an error
    listing,       \* the containers running on the host, in listing order
    discovered,    \* GetEnabledContainers: the declarations and error returned
    rin,           \* arguments of a resolveProtocols call
    rout,          \* what that call returned
    din,           \* arguments of a resolveDestPort call
    dout,          \* what that call returned
    dpc,           \* position of the discovery call
    expired        \* the deadline of cleanupCtx has passed

\* the convergence engine and what it works on
svcVars == <<daemon, funnels, remote, apiKey, pool, desired, current, toRemove, toAdd,
             failCount, curFunnels, funnelTodo, syncTodo, syncFailed, cmds, http,
             faults, statusOk, repeat, result, pc>>

\* the loop driver
runVars == <<rpc, inflight, evq, tick, cancelled, streamErr, cycle, followups, rerr>>

\* container discovery
dockerVars == <<listing, discovered, rin, rout, din, dout, dpc>>

vars == <<svcVars, runVars, dockerVars, expired>>

----------------------------------------------------------------------------
(* Bounds *)

\* containers running at the same time
MaxRunning == 2

\* operations per cycle that may meet a failing command or request
MaxFaults == 1

\* container events that arrive while the loop driver runs
MaxEvents == 3

\* Reconcile calls the loop driver makes
MaxCycles == 4

\* containers running on the host during a discovery
MaxListed == 2

\* DrainService calls of an outside caller between two cycles
MaxDrains == 2

----------------------------------------------------------------------------
(* Strings and maps *)

EmptyStr == <<>>

EmptyMap == [x \in {} |-> x]

MapPut(m, k, v) == [x \in (DOMAIN m) \cup {k} |-> IF x = k THEN v ELSE m[x]]

MapDel(m, k) == [x \in (DOMAIN m) \ {k} |-> m[x]]

\* strings.HasPrefix
HasPrefix(s, prefix) ==
    /\ Len(prefix) <= Len(s)
    /\ SubSeq(s, 1, Len(prefix)) = prefix

\* strings.Contains
Contains(s, substr) ==
    \E i \in 0..(Len(s) - Len(substr)) : SubSeq(s, i + 1, i + Len(substr)) = substr

\* strings.Split(s, ":")
RECURSIVE SplitColon(_)
SplitColon(s) ==
    IF \A i \in 1..Len(s) : s[i] # ":"
    THEN <<s>>
    ELSE LET i == CHOOSE j \in 1..Len(s) :
                      /\ s[j] = ":"
                      /\ \A k \in 1..(j - 1) : s[k] # ":"
         IN  <<SubSeq(s, 1, i - 1)>> \o SplitColon(SubSeq(s, i + 1, Len(s)))

Colon == <<":">>

SvcPrefix == <<"s", "v", "c", ":">>

----------------------------------------------------------------------------
(* Inputs: the declarations GetEnabledContainers can hand to the cycle *)

P80 == <<"8", "0">>

P443 == <<"4", "4", "3">>

P8080 == <<"8", "0", "8", "0">>

P8443 == <<"8", "4", "4", "3">>

NameA == <<"a">>

NameB == <<"b">>

\* a service name and listen ports as labels can spell them: neither label
\* is validated, and "a:1" with port "2" and "a" with port "1:2" are two
\* (service name, listen port) pairs that join to the same string
NameA1 == <<"a", ":", "1">>

P2 == <<"2">>

P1c2 == <<"1", ":", "2">>

\* a service created on the daemon by somebody else
ExternalId == <<"e", "x", "t", "e", "r", "n", "a", "l">>

\* the node's own host name, under which funnels are published
MachineHost == <<"n", "o", "d", "e">>

ContainerService(cname, name, port, sproto, proto, tport, fen, fport, fproto) ==
    [ContainerName    |-> cname,
     ServiceName      |-> name,
     Port             |-> port,
     TargetPort       |-> tport,
     ServiceProtocol  |-> sproto,
     Protocol         |-> proto,
     Tags             |-> << <<"tag:container">> >>,
     IPAddress        |-> "localhost",
     FunnelEnabled    |-> fen,
     FunnelTargetPort |-> tport,
     FunnelFunnelPort |-> fport,
     FunnelProtocol   |-> fproto]

\* The containers that may exist, in the order the runtime lists them.
Catalogue ==
    << ContainerService("web1", NameA, P80,   "http",  "http", "9080", FALSE, EmptyStr, ""),
       ContainerService("web2", NameA, P80,   "http",  "http", "9081", FALSE, EmptyStr, ""),
       ContainerService("web3", NameA, P443,  "https", "http", "9080", FALSE, EmptyStr, ""),
       ContainerService("web4", NameA, P8080, "http",  "http", "9081", FALSE, EmptyStr, ""),
       ContainerService("db1",  NameB, P80,   "tcp",   "tcp",  "9080", FALSE, EmptyStr, ""),
       ContainerService("db2",  NameB, P80,   "tls-terminated-tcp", "tcp", "9081", FALSE, EmptyStr, ""),
       ContainerService("web5", NameA, P80,   "https", "http", "9080", FALSE, EmptyStr, ""),
       ContainerService("fun1", NameA, P80,   "http",  "http", "9080", TRUE,  P443,  "https"),
       ContainerService("fun2", NameB, P80,   "tcp",   "tcp",  "9080", TRUE,  P443,  "tcp"),
       ContainerService("fun3", NameA, P8080, "http",  "http", "9081", TRUE,  P8443, "https"),
       ContainerService("col1", NameA1, P2,   "http",  "http", "9080", FALSE, EmptyStr, ""),
       ContainerService("col2", NameA, P1c2,  "http",  "http", "9081", FALSE, EmptyStr, "") >>

Containers == DOMAIN Catalogue

\* the list of a set of running containers, in listing order
RECURSIVE ListOf(_)
ListOf(running) ==
    IF running = {} THEN <<>>
    ELSE LET i == CHOOSE j \in running : \A k \in running : j <= k
         IN  <<Catalogue[i]>> \o ListOf(running \ {i})

----------------------------------------------------------------------------
(* tailscale/utils.go *)

isNotFoundError(res) == res = "notfound"

isConfigConflictError(res) == res = "conflict"

isManagedService_any(serviceName) == TRUE

isManagedService(serviceName) == HasPrefix(serviceName, SvcPrefix)

buildDestination(svc) ==
    <<svc.Protocol, "://", svc.IPAddress, ":", svc.TargetPort>>

----------------------------------------------------------------------------
(* The daemon behind the CLI: what an accepted command does to the status *)

\* host part of the Web key of a service: its name without the svc: prefix
HostOf(id) ==
    (IF HasPrefix(id, SvcPrefix) THEN SubSeq(id, Len(SvcPrefix) + 1, Len(id)) ELSE id)
        \o <<".", "t", "s">>

WebKey(id, port) == HostOf(id) \o Colon \o port

EmptyService == [TCP |-> EmptyMap, Web |-> EmptyMap]

\* `tailscale serve --service=<id> <flag>=<port> <dest>` accepted: the port
\* gets its TCP entry; an HTTP(S) port gets a Web entry with the proxy, a raw
\* TCP port has none and keeps its target in the TCPForward field of its TCP
\* entry (a field the status types of the client do not declare).
DaemonServe(st, id, flag, port, dest) ==
    LET old == IF id \in DOMAIN st THEN st[id] ELSE EmptyService
        wk  == WebKey(id, port)
        tcp == MapPut(old.TCP, port,
                      [HTTP       |-> flag = "--http",
                       HTTPS      |-> flag = "--https",
                       TCPForward |-> IF flag = "--tcp" THEN dest ELSE EmptyStr])
        web == IF flag \in {"--http", "--https"}
               THEN MapPut(old.Web, wk,
                           [Handlers |-> MapPut(EmptyMap, "/", [Proxy |-> dest])])
               ELSE MapDel(old.Web, wk)
    IN  MapPut(st, id, [TCP |-> tcp, Web |-> web])

\* `tailscale serve clear <id>` accepted: the whole service entry goes
DaemonClear(st, id) == MapDel(st, id)

\* `tailscale funnel --bg <flag>=<public port> <dest>` accepted
DaemonFunnel(fs, port) == fs \cup {MachineHost \o Colon \o port}

\* `tailscale funnel reset` accepted: every funnel goes
DaemonFunnelReset(fs) == {}

\* one issued CLI command and the class of its outcome
Cmd(op, svc, flag, port, dest, res, by) ==
    [op |-> op, svc |-> svc, flag |-> flag, port |-> port, dest |-> dest,
     res |-> res, by |-> by]

AnyFailed(cs) == \E i \in DOMAIN cs : cs[i].res # "ok"

----------------------------------------------------------------------------
(* tailscale/service.go *)

TCPProtocol(tcpConfig) ==
    IF tcpConfig.HTTPS THEN "https"
    ELSE IF tcpConfig.HTTP THEN "http"
    ELSE "tcp"

\* the proxy of the first handler that has one, in map iteration order
HandlerProxies(webConfig) ==
    LET ps == {webConfig.Handlers[h].Proxy : h \in DOMAIN webConfig.Handlers}
                  \ {EmptyStr}
    IN  IF ps = {} THEN {EmptyStr} ELSE ps

\* the destinations the scan of svcConfig.Web can yield for one port: the
\* first Web key, in map iteration order, that contains ":"+port decides
Destinations(svcConfig, port) ==
    LET matching == {wk \in DOMAIN svcConfig.Web : Contains(wk, Colon \o port)}
    IN  IF matching = {} THEN {EmptyStr}
        ELSE UNION {HandlerProxies(svcConfig.Web[wk]) : wk \in matching}

\* The maps GetCurrentServices can return for a status, one per outcome of
\* the map iterations: services[key] is assigned once per (service, port)
\* pair of the status, so of the pairs that give one key string the pair
\* visited last stays; a managed service without a TCP port gives no entry.
GetCurrentServices(st) ==
    LET managed == {id \in DOMAIN st : isManagedService(id)}
        E       == UNION {{<<id, port>> : port \in DOMAIN st[id].TCP} : id \in managed}
        KeyOf(e) == e[1] \o Colon \o e[2]
        Keys    == {KeyOf(e) : e \in E}
        AllD    == UNION {Destinations(st[e[1]], e[2]) : e \in E}
        Picks   == {f \in [E -> AllD] :
                      \A e \in E : f[e] \in Destinations(st[e[1]], e[2])}
        Last    == {g \in [Keys -> E] : \A k \in Keys : KeyOf(g[k]) = k}
    IN  { [k \in Keys |->
             [ServiceName |-> g[k][1],
              Port        |-> g[k][2],
              Protocol    |-> TCPProtocol(st[g[k][1]].TCP[g[k][2]]),
              Destination |-> f[g[k]]]] : f \in Picks, g \in Last }

ProtocolFlag(serviceProtocol) ==
    CASE serviceProtocol = "http"  -> "--http"
      [] serviceProtocol = "https" -> "--https"
      [] serviceProtocol \in {"tcp", "tls-terminated-tcp"} -> "--tcp"
      [] OTHER -> "unsupported"

\* clearServiceOnly: one clear, no drain; not-found is success
clearServiceOnly(st, serviceName, rc) ==
    [cmds   |-> <<Cmd("clear", serviceName, "", EmptyStr, EmptyStr, rc, "clearServiceOnly")>>,
     daemon |-> IF rc = "ok" THEN DaemonClear(st, serviceName) ELSE st,
     err    |-> rc # "ok" /\ ~isNotFoundError(rc)]

addService_drainsOnConflict(st, svc, r1, rc, r2) ==
    LET serviceName == SvcPrefix \o svc.ServiceName
        destination == buildDestination(svc)
        flag        == ProtocolFlag(svc.ServiceProtocol)
        serve(r)    == Cmd("serve", serviceName, flag, svc.Port, destination, r, "addService")
        served(s)   == DaemonServe(s, serviceName, flag, svc.Port, destination)
        cleared     ==
            [cmds   |-> <<Cmd("drain", serviceName, "", EmptyStr, EmptyStr, "ok", "removeService"),
                          Cmd("clear", serviceName, "", EmptyStr, EmptyStr, rc, "removeService")>>,
             daemon |-> IF rc = "ok" THEN DaemonClear(st, serviceName) ELSE st,
             err    |-> rc # "ok" /\ ~isNotFoundError(rc)]
    IN  IF flag = "unsupported"
        THEN [cmds |-> <<>>, daemon |-> st, err |-> TRUE]
        ELSE IF r1 = "ok"
        THEN [cmds |-> <<serve(r1)>>, daemon |-> served(st), err |-> FALSE]
        ELSE IF isConfigConflictError(r1)
        THEN IF cleared.err
             THEN [cmds   |-> <<serve(r1)>> \o cleared.cmds,
                   daemon |-> cleared.daemon,
                   err    |-> TRUE]
             ELSE [cmds   |-> <<serve(r1)>> \o cleared.cmds \o <<serve(r2)>>,
                   daemon |-> IF r2 = "ok" THEN served(cleared.daemon)
                                           ELSE cleared.daemon,
                   err    |-> r2 # "ok"]
        ELSE [cmds |-> <<serve(r1)>>, daemon |-> st, err |-> TRUE]

\* addService with the outcomes r1 of the serve, rc of the clear and r2 of
\* the retry (rc and r2 are only consulted on the conflict path)
addService(st, svc, r1, rc, r2) ==
    LET serviceName == SvcPrefix \o svc.ServiceName
        destination == buildDestination(svc)
        flag        == ProtocolFlag(svc.ServiceProtocol)
        serve(r)    == Cmd("serve", serviceName, flag, svc.Port, destination, r, "addService")
        served(s)   == DaemonServe(s, serviceName, flag, svc.Port, destination)
        cleared     == clearServiceOnly(st, serviceName, rc)
    IN  IF flag = "unsupported"
        THEN [cmds |-> <<>>, daemon |-> st, err |-> TRUE]
        ELSE IF r1 = "ok"
        THEN [cmds |-> <<serve(r1)>>, daemon |-> served(st), err |-> FALSE]
        ELSE IF isConfigConflictError(r1)
        THEN IF cleared.err
             THEN [cmds   |-> <<serve(r1)>> \o cleared.cmds,
                   daemon |-> cleared.daemon,
                   err    |-> TRUE]
             ELSE [cmds   |-> <<serve(r1)>> \o cleared.cmds \o <<serve(r2)>>,
                   daemon |-> IF r2 = "ok" THEN served(cleared.daemon)
                                           ELSE cleared.daemon,
                   err    |-> r2 # "ok"]
        ELSE [cmds |-> <<serve(r1)>>, daemon |-> st, err |-> TRUE]

removeService_drainAborts(st, serviceName, rd, rc) ==
    IF ~isManagedService(serviceName)
    THEN [cmds |-> <<>>, daemon |-> st, err |-> TRUE]
    ELSE IF rd # "ok"
    THEN [cmds   |-> <<Cmd("drain", serviceName, "", EmptyStr, EmptyStr, rd, "removeService")>>,
          daemon |-> st,
          err    |-> TRUE]
    ELSE [cmds   |-> <<Cmd("drain", serviceName, "", EmptyStr, EmptyStr, rd, "removeService"),
                       Cmd("clear", serviceName, "", EmptyStr, EmptyStr, rc, "removeService")>>,
          daemon |-> IF rc = "ok" THEN DaemonClear(st, serviceName) ELSE st,
          err    |-> rc # "ok" /\ ~isNotFoundError(rc)]

\* removeService with the outcomes rd of the drain and rc of the clear
removeService(st, serviceName, rd, rc) ==
    IF ~isManagedService(serviceName)
    THEN [cmds |-> <<>>, daemon |-> st, err |-> TRUE]
    ELSE [cmds   |-> <<Cmd("drain", serviceName, "", EmptyStr, EmptyStr, rd, "removeService"),
                       Cmd("clear", serviceName, "", EmptyStr, EmptyStr, rc, "removeService")>>,
          daemon |-> IF rc = "ok" THEN DaemonClear(st, serviceName) ELSE st,
          err    |-> rc # "ok" /\ ~isNotFoundError(rc)]

\* DrainService with the outcome rd of its command, `tailscale serve drain
\* svc:<serviceName>`: any failure of the command is returned
DrainService(st, serviceName, rd) ==
    [cmds   |-> <<Cmd("drain", SvcPrefix \o serviceName, "", EmptyStr, EmptyStr, rd,
                      "DrainService")>>,
     daemon |-> st,
     err    |-> rd # "ok"]

----------------------------------------------------------------------------
(* tailscale/funnel.go *)

\* getCurrentFunnels on a status that was read and parsed: host:port -> port
getCurrentFunnels(fs) ==
    [hostPort \in {h \in fs : Len(SplitColon(h)) = 2} |-> SplitColon(hostPort)[2]]

\* desiredFunnels: "svc:<name>" -> the last funnel-enabled declaration
desiredFunnels(d) ==
    LET en == {i \in DOMAIN d : d[i].FunnelEnabled}
        keyOf(i) == SvcPrefix \o d[i].ServiceName
    IN  [k \in {keyOf(i) : i \in en} |->
            d[CHOOSE i \in en : keyOf(i) = k /\ \A j \in en : keyOf(j) = k => j <= i]]

duplicatePortErrors_sameService(d) ==
    {j \in DOMAIN d :
        /\ d[j].FunnelEnabled
        /\ \E i \in 1..(j - 1) :
              /\ d[i].FunnelEnabled
              /\ d[i].ServiceName = d[j].ServiceName
              /\ d[i].FunnelFunnelPort = d[j].FunnelFunnelPort}

\* duplicatePortErrors: the funnel-enabled declarations whose public port an
\* earlier funnel-enabled declaration of the list already uses
duplicatePortErrors(d) ==
    {j \in DOMAIN d :
        /\ d[j].FunnelEnabled
        /\ \E i \in 1..(j - 1) :
              d[i].FunnelEnabled /\ d[i].FunnelFunnelPort = d[j].FunnelFunnelPort}

FunnelFlag(funnelProtocol) ==
    CASE funnelProtocol \in {"https", "http"} -> "--https"
      [] funnelProtocol = "tcp" -> "--tcp"
      [] funnelProtocol = "tls-terminated-tcp" -> "--tls-terminated-tcp"
      [] OTHER -> "unsupported"

addFunnel(fs, svc, r) ==
    LET flag == FunnelFlag(svc.FunnelProtocol)
        dest == <<(IF flag = "--https" THEN "http" ELSE "tcp"), "://",
                  svc.IPAddress, ":", svc.FunnelTargetPort>>
    IN  IF ~svc.FunnelEnabled
        THEN [cmds |-> <<>>, funnels |-> fs, err |-> FALSE]
        ELSE IF flag = "unsupported"
        THEN [cmds |-> <<>>, funnels |-> fs, err |-> TRUE]
        ELSE [cmds    |-> <<Cmd("funnel", EmptyStr, flag, svc.FunnelFunnelPort, dest, r, "addFunnel")>>,
              funnels |-> IF r = "ok" THEN DaemonFunnel(fs, svc.FunnelFunnelPort) ELSE fs,
              err     |-> r # "ok"]

removeFunnel(fs, port, r) ==
    [cmds    |-> <<Cmd("funnel-reset", EmptyStr, "", port, EmptyStr, r, "removeFunnel")>>,
     funnels |-> IF r = "ok" THEN DaemonFunnelReset(fs) ELSE fs,
     err     |-> r # "ok" /\ ~isNotFoundError(r)]

----------------------------------------------------------------------------
(* tailscale client: control-plane sync *)

\* uniqueServices: name -> tags and port of the last declaration of the name
uniqueServices(d) ==
    [n \in {d[i].ServiceName : i \in DOMAIN d} |->
        LET i == CHOOSE x \in DOMAIN d :
                    /\ d[x].ServiceName = n
                    /\ \A j \in DOMAIN d : d[j].ServiceName = n => j <= x
        IN  [Tags |-> d[i].Tags, Port |-> d[i].Port]]

Req(method, svc, body, status) ==
    [method |-> method, svc |-> svc, body |-> body, status |-> status]

\* the control plane stored the definition of a PUT with outcome rp: it
\* answered 200 ("ok"), or its answer came after the 10 s Timeout of the
\* client, so that Do returned an error ("late")
Stored(rp) == rp \in {"ok", "late"}

SyncServiceDefinition_recreates(rem, name, tags, port, rg, rp) ==
    LET serviceName == IF HasPrefix(name, SvcPrefix) THEN name ELSE SvcPrefix \o name
        p       == IF port = EmptyStr THEN P443 ELSE port
        payload == [name |-> serviceName, tags |-> tags,
                    ports |-> << <<"t", "c", "p", ":">> \o p >>]
        put     == Req("PUT", serviceName, payload, IF rp = "ok" THEN "200" ELSE "error")
    IN  IF rg # "ok"
        THEN [http |-> <<Req("GET", serviceName, <<>>, "error")>>,
              remote |-> rem, err |-> TRUE]
        ELSE IF serviceName \in rem
        THEN [http   |-> <<Req("GET", serviceName, <<>>, "200"),
                           Req("DELETE", serviceName, <<>>, "200"), put>>,
              remote |-> IF Stored(rp) THEN rem ELSE rem \ {serviceName},
              err    |-> rp # "ok"]
        ELSE [http   |-> <<Req("GET", serviceName, <<>>, "404"), put>>,
              remote |-> IF Stored(rp) THEN rem \cup {serviceName} ELSE rem,
              err    |-> rp # "ok"]

SyncServiceDefinition_upserts(rem, name, tags, port, rg, rp) ==
    LET serviceName == IF HasPrefix(name, SvcPrefix) THEN name ELSE SvcPrefix \o name
        p       == IF port = EmptyStr THEN P443 ELSE port
        payload == [name |-> serviceName, tags |-> tags,
                    ports |-> << <<"t", "c", "p", ":">> \o p >>]
    IN  IF rg # "ok"
        THEN [http |-> <<Req("GET", serviceName, <<>>, "error")>>,
              remote |-> rem, err |-> TRUE]
        ELSE [http   |-> <<Req("GET", serviceName, <<>>,
                               IF serviceName \in rem THEN "200" ELSE "404"),
                           Req("PUT", serviceName, payload,
                               IF rp = "ok" THEN "200" ELSE "error")>>,
              remote |-> IF Stored(rp) THEN rem \cup {serviceName} ELSE rem,
              err    |-> rp # "ok"]

\* SyncServiceDefinition with the outcomes rg of the GET and rp of the PUT
\* ("ok" = the control plane answered, "error" = transport error or a status
\* that is neither 200 nor, for the GET, 404, "late" = the control plane
\* served the PUT and the client timed out before the answer)
SyncServiceDefinition(rem, name, tags, port, rg, rp) ==
    LET serviceName == IF HasPrefix(name, SvcPrefix) THEN name ELSE SvcPrefix \o name
        p       == IF port = EmptyStr THEN P443 ELSE port
        payload == [name |-> serviceName, tags |-> tags,
                    ports |-> << <<"t", "c", "p", ":">> \o p >>]
    IN  IF rg # "ok"
        THEN [http |-> <<Req("GET", serviceName, <<>>, "error")>>,
              remote |-> rem, err |-> TRUE]
        ELSE IF serviceName \in rem
        THEN [http |-> <<Req("GET", serviceName, <<>>, "200")>>,
              remote |-> rem, err |-> FALSE]
        ELSE [http   |-> <<Req("GET", serviceName, <<>>, "404"),
                           Req("PUT", serviceName, payload,
                               IF rp = "ok" THEN "200" ELSE "error")>>,
              remote |-> IF Stored(rp) THEN rem \cup {serviceName} ELSE rem,
              err    |-> rp # "ok"]

----------------------------------------------------------------------------
(* ReconcileServices: the diff *)

desiredKey(svc) == SvcPrefix \o svc.ServiceName \o Colon \o svc.Port

\* desiredMap: a later declaration of the list overwrites an earlier one
desiredMap(d) ==
    [k \in {desiredKey(d[i]) : i \in DOMAIN d} |->
        d[CHOOSE i \in DOMAIN d :
              /\ desiredKey(d[i]) = k
              /\ \A j \in DOMAIN d : desiredKey(d[j]) = k => j <= i]]

\* the configuration check of an endpoint that exists on both sides
Changed(cur, svc) ==
    \/ cur.Destination # buildDestination(svc)
    \/ cur.Protocol # svc.ServiceProtocol

ToAdd(dm, cur) ==
    {k \in DOMAIN dm : k \notin DOMAIN cur \/ Changed(cur[k], dm[k])}

ToRemove(dm, cur) == {k \in DOMAIN cur : k \notin DOMAIN dm}

----------------------------------------------------------------------------
(* Outcome classes of the external commands and requests *)

ServeOutcomes == {"ok", "conflict", "error"}

ClearOutcomes == {"ok", "notfound", "error"}

DrainOutcomes == {"ok", "notfound", "error"}

FunnelOutcomes == {"ok", "error"}

ResetOutcomes == {"ok", "notfound", "error"}

StatusOutcomes == {"ok", "unparsed", "error"}

HttpOutcomes == {"ok", "error"}

\* a PUT can also be served and its answer lost to the client's Timeout
PutOutcomes == HttpOutcomes \cup {"late"}

\* the fault count after an operation that did or did not meet a failure
Bump(failed) == faults + (IF failed THEN 1 ELSE 0)

ReconcileCtxDone_background == FALSE

\* the context Reconcile hands to ReconcileServices is the context Run was
\* called with, the root context of main: it is done once the signal has
\* cancelled the root context
ReconcileCtxDone == cancelled

\* exec.CommandContext and http.NewRequestWithContext under the context of
\* the cycle: once the context is done the command is not started (the
\* request is not sent) and the call returns the context's error with no
\* output ("ctx")
Ctx(outcomes) == IF ReconcileCtxDone THEN {"ctx"} ELSE outcomes

\* a call refused by the done context is no fault of the daemon
BumpCtx(failed) == IF ReconcileCtxDone THEN faults ELSE Bump(failed)

----------------------------------------------------------------------------
(* State machine *)

\* the convergence engine is not part of this specification
SvcOff ==
    /\ daemon = EmptyMap
    /\ funnels = {}
    /\ remote = {}
    /\ apiKey = ""
    /\ pool = {}
    /\ desired = <<>>
    /\ current = EmptyMap
    /\ toRemove = {}
    /\ toAdd = {}
    /\ failCount = 0
    /\ curFunnels = EmptyMap
    /\ funnelTodo = {}
    /\ syncTodo = {}
    /\ syncFailed = {}
    /\ cmds = <<>>
    /\ http = <<>>
    /\ faults = 0
    /\ statusOk = FALSE
    /\ repeat = FALSE
    /\ result = "none"
    /\ pc = "off"
    /\ expired = FALSE

\* the loop driver and the discovery are not part of this specification
RunOff ==
    /\ rpc = "off"
    /\ inflight = 0
    /\ evq = <<>>
    /\ tick = FALSE
    /\ cancelled = FALSE
    /\ streamErr = FALSE
    /\ cycle = 0
    /\ followups = <<>>
    /\ rerr = FALSE

DockerOff ==
    /\ listing = <<>>
    /\ discovered = <<>>
    /\ rin = <<>>
    /\ rout = <<>>
    /\ din = <<>>
    /\ dout = <<>>
    /\ dpc = "off"


\* what somebody else serves on the daemon, outside the managed namespace
ExternalService ==
    [TCP |-> MapPut(EmptyMap, P80,
                    [HTTP |-> TRUE, HTTPS |-> FALSE, TCPForward |-> EmptyStr]),
     Web |-> MapPut(EmptyMap, WebKey(ExternalId, P80),
                    [Handlers |-> MapPut(EmptyMap, "/",
                                         [Proxy |-> <<"http", "://", "localhost", ":", "7000">>])])]

\* The deployments checked: the containers that exist on the host, the
\* credential the process was started with and the serve status the daemon
\* has when the process starts: ExternalOnly holds nothing in the managed
\* namespace, PortlessManaged also holds a managed service that has no TCP
\* port (one that somebody configured under a svc: id without a listener).
Deployments ==
    LET ExternalOnly    == MapPut(EmptyMap, ExternalId, ExternalService)
        PortlessManaged == MapPut(ExternalOnly, SvcPrefix \o NameB, EmptyService)
    IN  { [pool |-> {1, 2, 3, 7}, apiKey |-> "",    daemon |-> ExternalOnly],
          [pool |-> {1, 4, 5, 6}, apiKey |-> "",    daemon |-> ExternalOnly],
          [pool |-> {8, 9, 10},   apiKey |-> "",    daemon |-> ExternalOnly],
          [pool |-> {5, 8, 9},    apiKey |-> "key", daemon |-> ExternalOnly],
          [pool |-> {11, 12},     apiKey |-> "",    daemon |-> ExternalOnly],
          [pool |-> {1, 5},       apiKey |-> "",    daemon |-> PortlessManaged] }

\* the engine before its first cycle: one deployment (pool of containers,
\* credential and serve status of the daemon) chosen
InitSvc ==
    /\ \E dep \in Deployments :
         /\ apiKey = dep.apiKey
         /\ pool = dep.pool
         /\ daemon = dep.daemon
    /\ funnels = {}
    /\ remote = {}
    /\ desired = <<>>
    /\ current = EmptyMap
    /\ toRemove = {}
    /\ toAdd = {}
    /\ failCount = 0
    /\ curFunnels = EmptyMap
    /\ funnelTodo = {}
    /\ syncTodo = {}
    /\ syncFailed = {}
    /\ cmds = <<>>
    /\ http = <<>>
    /\ faults = 0
    /\ statusOk = FALSE
    /\ repeat = FALSE
    /\ result = "none"
    /\ pc = "idle"
    /\ expired = FALSE

Init ==
    /\ InitSvc
    /\ RunOff
    /\ DockerOff

\* the last cycle returned success and none of its commands or requests failed
CleanCycle == result = "ok" /\ statusOk /\ faults = 0

\* ReconcileServices, up to the computed actions: the desired map, the status
\* read (an error or an unparsable status leaves an empty map) and the diff
StartCycle ==
    /\ pc = "idle"
    /\ \E running \in SUBSET pool, st \in Ctx(StatusOutcomes) :
         /\ Cardinality(running) <= MaxRunning
         /\ (st \notin {"ok", "ctx"}) => MaxFaults >= 1
         /\ \E cur \in (IF st = "ok" THEN GetCurrentServices(daemon) ELSE {EmptyMap}) :
              LET d  == ListOf(running)
                  dm == desiredMap(d)
              IN  /\ desired' = d
                  /\ current' = cur
                  /\ toAdd' = ToAdd(dm, cur)
                  /\ toRemove' = ToRemove(dm, cur)
                  /\ repeat' = (CleanCycle /\ d = desired)
                  /\ statusOk' = (st = "ok")
                  /\ faults' = (IF st \in {"ok", "ctx"} THEN 0 ELSE 1)
    /\ failCount' = 0
    /\ curFunnels' = EmptyMap
    /\ funnelTodo' = {}
    /\ syncTodo' = {}
    /\ syncFailed' = {}
    /\ cmds' = <<>>
    /\ http' = <<>>
    /\ result' = "none"
    /\ pc' = "services"
    /\ UNCHANGED <<runVars, dockerVars, expired>>
    /\ UNCHANGED <<daemon, funnels, remote, apiKey, pool>>

\* one iteration of "Remove old services first" (map iteration order)
RemoveStep ==
    /\ pc = "services"
    /\ toRemove # {}
    /\ \E k \in toRemove, rd \in Ctx(DrainOutcomes), rc \in Ctx(ClearOutcomes) :
         LET r == removeService(daemon, current[k].ServiceName, rd, rc)
         IN  /\ BumpCtx(AnyFailed(r.cmds)) <= MaxFaults
             /\ faults' = BumpCtx(AnyFailed(r.cmds))
             /\ daemon' = r.daemon
             /\ cmds' = cmds \o r.cmds
             /\ toRemove' = toRemove \ {k}
    /\ UNCHANGED <<runVars, dockerVars, expired>>
    /\ UNCHANGED <<funnels, remote, apiKey, pool, desired, current, toAdd, failCount,
                   curFunnels, funnelTodo, syncTodo, syncFailed, http, statusOk,
                   repeat, result, pc>>

\* the add loop runs once the remove loop is over
AddsMayStart_unordered == TRUE

AddsMayStart == toRemove = {}

\* one iteration of "Add new services" (map iteration order)
AddStep ==
    /\ pc = "services"
    /\ AddsMayStart
    /\ toAdd # {}
    /\ \E k \in toAdd, r1 \in Ctx(ServeOutcomes), rc \in Ctx(ClearOutcomes), r2 \in Ctx(ServeOutcomes) :
         LET r == addService(daemon, desiredMap(desired)[k], r1, rc, r2)
         IN  /\ BumpCtx(AnyFailed(r.cmds)) <= MaxFaults
             /\ faults' = BumpCtx(AnyFailed(r.cmds))
             /\ daemon' = r.daemon
             /\ cmds' = cmds \o r.cmds
             /\ failCount' = failCount + (IF r.err THEN 1 ELSE 0)
             /\ toAdd' = toAdd \ {k}
    /\ UNCHANGED <<runVars, dockerVars, expired>>
    /\ UNCHANGED <<funnels, remote, apiKey, pool, desired, current, toRemove,
                   curFunnels, funnelTodo, syncTodo, syncFailed, http, statusOk,
                   repeat, result, pc>>

\* after the add loop: return on failed adds; else the head of
\* reconcileFunnels (funnel status, desired funnels, duplicate-port check)
EndServices ==
    /\ pc = "services"
    /\ toRemove = {}
    /\ toAdd = {}
    /\ IF failCount > 0
       THEN /\ result' = "error"
            /\ pc' = "idle"
            /\ UNCHANGED <<curFunnels, funnelTodo, faults>>
       ELSE \E st \in Ctx(StatusOutcomes) :
              /\ BumpCtx(st # "ok") <= MaxFaults
              /\ faults' = BumpCtx(st # "ok")
              /\ curFunnels' = (IF st = "ok" THEN getCurrentFunnels(funnels) ELSE EmptyMap)
              /\ IF duplicatePortErrors(desired) # {}
                 THEN /\ result' = "error"
                      /\ pc' = "idle"
                      /\ funnelTodo' = {}
                 ELSE /\ result' = "none"
                      /\ pc' = "funnelAdd"
                      /\ funnelTodo' = DOMAIN desiredFunnels(desired)
    /\ UNCHANGED <<runVars, dockerVars, expired>>
    /\ UNCHANGED <<daemon, funnels, remote, apiKey, pool, desired, current, toRemove,
                   toAdd, failCount, syncTodo, syncFailed, cmds, http, statusOk,
                   repeat>>

\* one iteration of "Find funnels to add"
FunnelAddStep ==
    /\ pc = "funnelAdd"
    /\ funnelTodo # {}
    /\ \E serviceName \in funnelTodo, rr \in Ctx(ResetOutcomes), ra \in Ctx(FunnelOutcomes) :
         LET svc     == desiredFunnels(desired)[serviceName]
             exists  == serviceName \in DOMAIN curFunnels
             removed == IF exists /\ curFunnels[serviceName] # svc.FunnelFunnelPort
                        THEN removeFunnel(funnels, curFunnels[serviceName], rr)
                        ELSE [cmds |-> <<>>, funnels |-> funnels, err |-> FALSE]
             added   == IF ~exists \/ curFunnels[serviceName] # svc.FunnelFunnelPort
                        THEN addFunnel(removed.funnels, svc, ra)
                        ELSE [cmds |-> <<>>, funnels |-> funnels, err |-> FALSE]
             issued  == removed.cmds \o added.cmds
         IN  /\ BumpCtx(AnyFailed(issued)) <= MaxFaults
             /\ faults' = BumpCtx(AnyFailed(issued))
             /\ funnels' = added.funnels
             /\ cmds' = cmds \o issued
             /\ funnelTodo' = funnelTodo \ {serviceName}
    /\ UNCHANGED <<runVars, dockerVars, expired>>
    /\ UNCHANGED <<daemon, remote, apiKey, pool, desired, current, toRemove, toAdd,
                   failCount, curFunnels, syncTodo, syncFailed, http, statusOk,
                   repeat, result, pc>>

\* the add loop is over: on to "Find funnels to remove"
FunnelAddDone ==
    /\ pc = "funnelAdd"
    /\ funnelTodo = {}
    /\ funnelTodo' = DOMAIN curFunnels
    /\ pc' = "funnelRemove"
    /\ UNCHANGED <<runVars, dockerVars, expired>>
    /\ UNCHANGED <<daemon, funnels, remote, apiKey, pool, desired, current, toRemove,
                   toAdd, failCount, curFunnels, syncTodo, syncFailed, cmds, http,
                   faults, statusOk, repeat, result>>

\* one iteration of "Find funnels to remove"
FunnelRemoveStep ==
    /\ pc = "funnelRemove"
    /\ funnelTodo # {}
    /\ \E hostPort \in funnelTodo, rr \in Ctx(ResetOutcomes) :
         LET port      == curFunnels[hostPort]
             df        == desiredFunnels(desired)
             portInUse == \E k \in DOMAIN df : df[k].FunnelFunnelPort = port
             removed   == IF portInUse
                          THEN [cmds |-> <<>>, funnels |-> funnels, err |-> FALSE]
                          ELSE removeFunnel(funnels, port, rr)
         IN  /\ BumpCtx(AnyFailed(removed.cmds)) <= MaxFaults
             /\ faults' = BumpCtx(AnyFailed(removed.cmds))
             /\ funnels' = removed.funnels
             /\ cmds' = cmds \o removed.cmds
             /\ funnelTodo' = funnelTodo \ {hostPort}
    /\ UNCHANGED <<runVars, dockerVars, expired>>
    /\ UNCHANGED <<daemon, remote, apiKey, pool, desired, current, toRemove, toAdd,
                   failCount, curFunnels, syncTodo, syncFailed, http, statusOk,
                   repeat, result, pc>>

\* reconcileFunnels returned nil: with a credential the control-plane sync
\* starts, without one the cycle returns nil
FunnelRemoveDone ==
    /\ pc = "funnelRemove"
    /\ funnelTodo = {}
    /\ IF apiKey # ""
       THEN /\ syncTodo' = DOMAIN uniqueServices(desired)
            /\ pc' = "sync"
            /\ result' = "none"
       ELSE /\ syncTodo' = {}
            /\ pc' = "idle"
            /\ result' = "ok"
    /\ UNCHANGED <<runVars, dockerVars, expired>>
    /\ UNCHANGED <<daemon, funnels, remote, apiKey, pool, desired, current, toRemove,
                   toAdd, failCount, curFunnels, funnelTodo, syncFailed, cmds,
                   http, faults, statusOk, repeat>>

SyncStep_stopsOnFailure ==
    /\ pc = "sync"
    /\ syncTodo # {}
    /\ \E name \in syncTodo, rg \in HttpOutcomes, rp \in PutOutcomes :
         LET def == uniqueServices(desired)[name]
             r   == SyncServiceDefinition(remote, name, def.Tags, def.Port, rg, rp)
         IN  /\ Bump(r.err) <= MaxFaults
             /\ faults' = Bump(r.err)
             /\ remote' = r.remote
             /\ http' = http \o r.http
             /\ syncFailed' = (IF r.err THEN syncFailed \cup {name} ELSE syncFailed)
             /\ syncTodo' = (IF r.err THEN {} ELSE syncTodo \ {name})
    /\ UNCHANGED <<runVars, dockerVars, expired>>
    /\ UNCHANGED <<daemon, funnels, apiKey, pool, desired, current, toRemove, toAdd,
                   failCount, curFunnels, funnelTodo, cmds, statusOk, repeat,
                   result, pc>>

\* one iteration of the loop of syncServiceDefinitions
SyncStep ==
    /\ pc = "sync"
    /\ syncTodo # {}
    /\ \E name \in syncTodo, rg \in Ctx(HttpOutcomes), rp \in Ctx(PutOutcomes) :
         LET def == uniqueServices(desired)[name]
             r   == SyncServiceDefinition(remote, name, def.Tags, def.Port, rg, rp)
         IN  /\ BumpCtx(r.err) <= MaxFaults
             /\ faults' = BumpCtx(r.err)
             /\ remote' = r.remote
             /\ http' = http \o r.http
             /\ syncFailed' = (IF r.err THEN syncFailed \cup {name} ELSE syncFailed)
             /\ syncTodo' = syncTodo \ {name}
    /\ UNCHANGED <<runVars, dockerVars, expired>>
    /\ UNCHANGED <<daemon, funnels, apiKey, pool, desired, current, toRemove, toAdd,
                   failCount, curFunnels, funnelTodo, cmds, statusOk, repeat,
                   result, pc>>

SyncDone_propagates ==
    /\ pc = "sync"
    /\ syncTodo = {}
    /\ result' = (IF syncFailed # {} THEN "error" ELSE "ok")
    /\ pc' = "idle"
    /\ UNCHANGED <<runVars, dockerVars, expired>>
    /\ UNCHANGED <<daemon, funnels, remote, apiKey, pool, desired, current, toRemove,
                   toAdd, failCount, curFunnels, funnelTodo, syncTodo, syncFailed,
                   cmds, http, faults, statusOk, repeat>>

\* syncServiceDefinitions returned; its error is logged, the cycle returns nil
SyncDone ==
    /\ pc = "sync"
    /\ syncTodo = {}
    /\ result' = "ok"
    /\ pc' = "idle"
    /\ UNCHANGED <<runVars, dockerVars, expired>>
    /\ UNCHANGED <<daemon, funnels, remote, apiKey, pool, desired, current, toRemove,
                   toAdd, failCount, curFunnels, funnelTodo, syncTodo, syncFailed,
                   cmds, http, faults, statusOk, repeat>>

----------------------------------------------------------------------------
(* Commands cut by their context *)

\* what a command killed by the done context may have done to the serve
\* configuration before its process died
Effect(st, c) ==
    CASE c.op = "serve" -> DaemonServe(st, c.svc, c.flag, c.port, c.dest)
      [] c.op = "clear" -> DaemonClear(st, c.svc)
      [] OTHER -> st

EffectFunnel(fs, c) ==
    CASE c.op = "funnel" -> DaemonFunnel(fs, c.port)
      [] c.op = "funnel-reset" -> DaemonFunnelReset(fs)
      [] OTHER -> fs

\* outcomes of the commands of one step when the context of the step becomes
\* done during it (the signal for a cycle, the deadline for the cleanup)
Interrupted(outcomes) == outcomes \cup {"killed", "ctx"}

\* the context became done while the commands cs of one call were issued: while
\* one of them ran (that one is killed) or between two of them (the second is
\* refused by the done context); the ones before completed, the ones after
\* are not started
KilledRun(cs) ==
    \E j \in DOMAIN cs :
        /\ \/ cs[j].res = "killed"
           \/ cs[j].res = "ctx" /\ j > 1
        /\ \A i \in DOMAIN cs :
              /\ (i < j) => cs[i].res \notin {"killed", "ctx"}
              /\ (i > j) => cs[i].res = "ctx"

\* the serve configurations a call may leave when its context cut it: a
\* killed command may or may not have acted, a refused one has not
KilledEffects(st, cs) ==
    {st} \cup {Effect(st, cs[j]) : j \in {i \in DOMAIN cs : cs[i].res = "killed"}}

KilledFunnelEffects(fs, cs) ==
    {fs} \cup {EffectFunnel(fs, cs[j]) : j \in {i \in DOMAIN cs : cs[i].res = "killed"}}

\* a command of cs failed on its own account
FailedBefore(cs) == \E i \in DOMAIN cs : cs[i].res \notin {"ok", "killed", "ctx"}

----------------------------------------------------------------------------
(* CleanupAllServices, run by main once the loop driver has returned *)

\* exec.CommandContext under cleanupCtx, the context main gives the cleanup:
\* once its deadline of 30 s has passed a command is not started and the call
\* returns the context's error ("ctx")
CleanupCtx(outcomes) == IF expired THEN {"ctx"} ELSE outcomes

\* a status command the deadline may also kill while it runs
CleanupStatus == CleanupCtx(StatusOutcomes \cup {"killed"})

\* a call refused or killed by the deadline is no fault of the daemon
BumpCleanupCtx(failed) == IF expired THEN faults ELSE Bump(failed)

\* head of the cleanup: the funnel status (an error skips the funnel cleanup)
CleanupStart ==
    /\ pc = "idle"
    /\ \E st \in CleanupStatus :
         /\ (st \notin {"ok", "killed"}) => MaxFaults >= 1
         /\ faults' = (IF st \in {"ok", "killed"} THEN 0 ELSE 1)
         /\ curFunnels' = (IF st = "ok" THEN getCurrentFunnels(funnels) ELSE EmptyMap)
         /\ funnelTodo' = (IF st = "ok" THEN DOMAIN getCurrentFunnels(funnels) ELSE {})
         /\ expired' = (st = "killed")
    /\ current' = EmptyMap
    /\ toRemove' = {}
    /\ toAdd' = {}
    /\ failCount' = 0
    /\ syncTodo' = {}
    /\ syncFailed' = {}
    /\ cmds' = <<>>
    /\ http' = <<>>
    /\ statusOk' = FALSE
    /\ repeat' = FALSE
    /\ result' = "none"
    /\ desired' = <<>>
    /\ pc' = "cleanupFunnels"
    /\ UNCHANGED <<runVars, dockerVars>>
    /\ UNCHANGED <<daemon, funnels, remote, apiKey, pool>>

\* one iteration of the funnel cleanup loop (failCount counts totalErrors);
\* the deadline may pass while the funnel command runs
CleanupFunnelStep ==
    /\ pc = "cleanupFunnels"
    /\ funnelTodo # {}
    /\ \E hostPort \in funnelTodo :
         \/ \E rr \in CleanupCtx(ResetOutcomes) :
              LET removed == removeFunnel(funnels, curFunnels[hostPort], rr)
              IN  /\ BumpCleanupCtx(AnyFailed(removed.cmds)) <= MaxFaults
                  /\ faults' = BumpCleanupCtx(AnyFailed(removed.cmds))
                  /\ funnels' = removed.funnels
                  /\ cmds' = cmds \o removed.cmds
                  /\ failCount' = failCount + (IF removed.err THEN 1 ELSE 0)
                  /\ funnelTodo' = funnelTodo \ {hostPort}
                  /\ expired' = expired
         \/ /\ ~expired
            /\ \E rr \in Interrupted(ResetOutcomes) :
                 LET removed == removeFunnel(funnels, curFunnels[hostPort], rr)
                 IN  /\ KilledRun(removed.cmds)
                     /\ faults' = faults
                     /\ funnels' \in KilledFunnelEffects(removed.funnels, removed.cmds)
                     /\ cmds' = cmds \o removed.cmds
                     /\ failCount' = failCount + (IF removed.err THEN 1 ELSE 0)
                     /\ funnelTodo' = funnelTodo \ {hostPort}
                     /\ expired' = TRUE
    /\ UNCHANGED <<runVars, dockerVars>>
    /\ UNCHANGED <<daemon, remote, apiKey, pool, desired, current, toRemove, toAdd,
                   curFunnels, syncTodo, syncFailed, http, statusOk, repeat,
                   result, pc>>

\* "Cleanup services": the serve status; an error returns at once, an empty
\* map returns after the funnel errors are counted
CleanupServices ==
    /\ pc = "cleanupFunnels"
    /\ funnelTodo = {}
    /\ \E st \in CleanupStatus :
         LET failed == st \in {"error", "ctx", "killed"}
             fault  == st \in {"error", "unparsed"}
         IN  /\ Bump(fault) <= MaxFaults
             /\ faults' = Bump(fault)
             /\ statusOk' = (st = "ok")
             /\ expired' = (expired \/ st = "killed")
             /\ \E cur \in (IF st = "ok" THEN GetCurrentServices(daemon) ELSE {EmptyMap}) :
                  /\ current' = cur
                  /\ toRemove' = DOMAIN cur
                  /\ IF failed
                     THEN result' = "error" /\ pc' = "stopped"
                     ELSE IF DOMAIN cur = {}
                     THEN /\ result' = (IF failCount > 0 THEN "error" ELSE "ok")
                          /\ pc' = "stopped"
                     ELSE result' = "none" /\ pc' = "cleanupServices"
    /\ UNCHANGED <<runVars, dockerVars>>
    /\ UNCHANGED <<daemon, funnels, remote, apiKey, pool, desired, toAdd, failCount,
                   curFunnels, funnelTodo, syncTodo, syncFailed, cmds, http,
                   repeat>>

\* one iteration of "Remove each service (drain + clear)"; the deadline may
\* pass during the drain, between the drain and the clear, or during the clear
CleanupServiceStep ==
    /\ pc = "cleanupServices"
    /\ toRemove # {}
    /\ \E k \in toRemove :
         \/ \E rd \in CleanupCtx(DrainOutcomes), rc \in CleanupCtx(ClearOutcomes) :
              LET r == removeService(daemon, current[k].ServiceName, rd, rc)
              IN  /\ BumpCleanupCtx(AnyFailed(r.cmds)) <= MaxFaults
                  /\ faults' = BumpCleanupCtx(AnyFailed(r.cmds))
                  /\ daemon' = r.daemon
                  /\ cmds' = cmds \o r.cmds
                  /\ failCount' = failCount + (IF r.err THEN 1 ELSE 0)
                  /\ toRemove' = toRemove \ {k}
                  /\ expired' = expired
         \/ /\ ~expired
            /\ \E rd \in Interrupted(DrainOutcomes), rc \in Interrupted(ClearOutcomes) :
                 LET r == removeService(daemon, current[k].ServiceName, rd, rc)
                 IN  /\ KilledRun(r.cmds)
                     /\ Bump(FailedBefore(r.cmds)) <= MaxFaults
                     /\ faults' = Bump(FailedBefore(r.cmds))
                     /\ daemon' \in KilledEffects(r.daemon, r.cmds)
                     /\ cmds' = cmds \o r.cmds
                     /\ failCount' = failCount + (IF r.err THEN 1 ELSE 0)
                     /\ toRemove' = toRemove \ {k}
                     /\ expired' = TRUE
    /\ UNCHANGED <<runVars, dockerVars>>
    /\ UNCHANGED <<funnels, remote, apiKey, pool, desired, current, toAdd, curFunnels,
                   funnelTodo, syncTodo, syncFailed, http, statusOk, repeat,
                   result, pc>>

CleanupDone ==
    /\ pc = "cleanupServices"
    /\ toRemove = {}
    /\ result' = (IF failCount > 0 THEN "error" ELSE "ok")
    /\ pc' = "stopped"
    /\ UNCHANGED <<runVars, dockerVars, expired>>
    /\ UNCHANGED <<daemon, funnels, remote, apiKey, pool, desired, current, toRemove,
                   toAdd, failCount, curFunnels, funnelTodo, syncTodo, syncFailed,
                   cmds, http, faults, statusOk, repeat>>

Next ==
    \/ StartCycle
    \/ RemoveStep
    \/ AddStep
    \/ EndServices
    \/ FunnelAddStep
    \/ FunnelAddDone
    \/ FunnelRemoveStep
    \/ FunnelRemoveDone
    \/ SyncStep
    \/ SyncDone
    \/ CleanupStart
    \/ CleanupFunnelStep
    \/ CleanupServices
    \/ CleanupServiceStep
    \/ CleanupDone

Spec == Init /\ [][Next]_vars

\* Client.DrainService, an exported operation that nothing in the repository
\* calls: a caller of the package uses it between two cycles
DrainServiceCall ==
    /\ pc = "idle"
    /\ Cardinality({i \in DOMAIN cmds : cmds[i].by = "DrainService"}) < MaxDrains
    /\ \E serviceName \in {NameA, NameB}, rd \in DrainOutcomes :
         LET r == DrainService(daemon, serviceName, rd)
         IN  /\ Bump(AnyFailed(r.cmds)) <= MaxFaults
             /\ faults' = Bump(AnyFailed(r.cmds))
             /\ daemon' = r.daemon
             /\ cmds' = cmds \o r.cmds
    /\ UNCHANGED <<runVars, dockerVars, expired>>
    /\ UNCHANGED <<funnels, remote, apiKey, pool, desired, current, toRemove, toAdd,
                   failCount, curFunnels, funnelTodo, syncTodo, syncFailed, http,
                   statusOk, repeat, result, pc>>

\* the client as a package: the program and the callers of DrainService
NextClient == Next \/ DrainServiceCall

SpecClient == Init /\ [][NextClient]_vars

----------------------------------------------------------------------------
(* reconciler.Reconciler.Run: the loop driver, with the signal handler of   *)
(* main, the ticker and the container event stream as its environment       *)

\* Run has subscribed to the event stream and started its ticker: both
\* happen once the initial Reconcile has returned
Subscribed ==
    /\ rpc \in {"select", "reconciling"}
    /\ ~(rpc = "reconciling" /\ cycle = 1)

\* a Reconcile call begins on the goroutine of Run
BeginReconcile ==
    /\ cycle < MaxCycles
    /\ cycle' = cycle + 1
    /\ inflight' = inflight + 1
    /\ rpc' = "reconciling"

InitRun ==
    /\ rpc = "start"
    /\ inflight = 0
    /\ evq = <<>>
    /\ tick = FALSE
    /\ cancelled = FALSE
    /\ streamErr = FALSE
    /\ cycle = 0
    /\ followups = <<>>
    /\ rerr = FALSE
    /\ SvcOff
    /\ DockerOff

\* "Initial reconciliation"
InitialKick ==
    /\ rpc = "start"
    /\ BeginReconcile
    /\ UNCHANGED <<evq, tick, cancelled, streamErr, followups, rerr>>
    /\ UNCHANGED <<svcVars, dockerVars, expired>>

ReconcileReturns_blocksOnCancel ==
    /\ inflight > 0
    /\ ~cancelled
    /\ inflight' = inflight - 1
    /\ rerr' \in BOOLEAN
    /\ rpc' = (IF rpc = "reconciling" THEN "select" ELSE rpc)
    /\ UNCHANGED <<evq, tick, cancelled, streamErr, cycle, followups>>
    /\ UNCHANGED <<svcVars, dockerVars, expired>>

ReconcileReturns_stopsOnError ==
    /\ inflight > 0
    /\ inflight' = inflight - 1
    /\ rerr' \in BOOLEAN
    /\ rpc' = (IF rerr' THEN "returned"
               ELSE IF rpc = "reconciling" THEN "select" ELSE rpc)
    /\ UNCHANGED <<evq, tick, cancelled, streamErr, cycle, followups>>
    /\ UNCHANGED <<svcVars, dockerVars, expired>>

\* the Reconcile call returns to Run, which logs its error, if any, and goes
\* (back) to its select
ReconcileReturns ==
    /\ inflight > 0
    /\ inflight' = inflight - 1
    /\ rerr' \in BOOLEAN
    /\ rpc' = (IF rpc = "reconciling" THEN "select" ELSE rpc)
    /\ UNCHANGED <<evq, tick, cancelled, streamErr, cycle, followups>>
    /\ UNCHANGED <<svcVars, dockerVars, expired>>

\* case <-ctx.Done()
SelectDone ==
    /\ rpc = "select"
    /\ cancelled
    /\ rpc' = "returned"
    /\ UNCHANGED <<inflight, evq, tick, cancelled, streamErr, cycle, followups, rerr>>
    /\ UNCHANGED <<svcVars, dockerVars, expired>>

\* case err := <-errChan: the error is received and logged, and Run waits in
\* time.Sleep(5 * time.Second), outside its select
SelectErr ==
    /\ rpc = "select"
    /\ streamErr
    /\ rpc' = "sleeping"
    /\ streamErr' = FALSE
    /\ UNCHANGED <<inflight, evq, tick, cancelled, cycle, followups, rerr>>
    /\ UNCHANGED <<svcVars, dockerVars, expired>>

\* "Try to reconnect by continuing": the sleep is over, WatchEvents is called
\* with ctx, done or not, and replaces both channels (what the old event
\* channel still held is never received); Run is back at its select
Reconnect ==
    /\ rpc = "sleeping"
    /\ rpc' = "select"
    /\ evq' = <<>>
    /\ UNCHANGED <<inflight, tick, cancelled, streamErr, cycle, followups, rerr>>
    /\ UNCHANGED <<svcVars, dockerVars, expired>>

SelectEvent_async ==
    /\ rpc = "select"
    /\ evq # <<>>
    /\ cycle < MaxCycles
    /\ cycle' = cycle + 1
    /\ inflight' = inflight + 1
    /\ evq' = Tail(evq)
    /\ followups' = Append(followups, Head(evq))
    /\ UNCHANGED <<rpc, tick, cancelled, streamErr, rerr>>
    /\ UNCHANGED <<svcVars, dockerVars, expired>>

\* case event := <-eventsChan: one event is received and Reconcile is called
SelectEvent ==
    /\ rpc = "select"
    /\ evq # <<>>
    /\ BeginReconcile
    /\ evq' = Tail(evq)
    /\ followups' = Append(followups, Head(evq))
    /\ UNCHANGED <<tick, cancelled, streamErr, rerr>>
    /\ UNCHANGED <<svcVars, dockerVars, expired>>

\* case <-ticker.C
SelectTick ==
    /\ rpc = "select"
    /\ tick
    /\ BeginReconcile
    /\ tick' = FALSE
    /\ UNCHANGED <<evq, cancelled, streamErr, followups, rerr>>
    /\ UNCHANGED <<svcVars, dockerVars, expired>>

\* a container starts, stops, dies or restarts: the stream holds the event
\* until Run receives it; it is marked with the cycle that was executing when
\* it arrived (0 when none was)
EventArrives ==
    /\ Subscribed
    /\ ~streamErr
    /\ Len(evq) + Len(followups) < MaxEvents
    /\ evq' = Append(evq, IF rpc = "reconciling" THEN cycle ELSE 0)
    /\ UNCHANGED <<rpc, inflight, tick, cancelled, streamErr, cycle, followups, rerr>>
    /\ UNCHANGED <<svcVars, dockerVars, expired>>

\* the interval elapses, also while Run sleeps after a stream error; the
\* ticker keeps at most one tick
TickFires ==
    /\ (Subscribed \/ rpc = "sleeping")
    /\ ~tick
    /\ tick' = TRUE
    /\ UNCHANGED <<rpc, inflight, evq, cancelled, streamErr, cycle, followups, rerr>>
    /\ UNCHANGED <<svcVars, dockerVars, expired>>

\* the event stream ends with an error.  The stream hands over one event at
\* a time and reports a broken connection after the events it had read; when
\* ctx is done it gives up the event it holds, if any, and reports ctx.Err()
StreamFails ==
    /\ Subscribed
    /\ ~streamErr
    /\ evq = <<>> \/ cancelled
    /\ streamErr' = TRUE
    /\ evq' = <<>>
    /\ UNCHANGED <<rpc, inflight, tick, cancelled, cycle, followups, rerr>>
    /\ UNCHANGED <<svcVars, dockerVars, expired>>

\* main's signal goroutine: SIGINT or SIGTERM cancels ctx
Cancel ==
    /\ rpc # "returned"
    /\ ~cancelled
    /\ cancelled' = TRUE
    /\ UNCHANGED <<rpc, inflight, evq, tick, streamErr, cycle, followups, rerr>>
    /\ UNCHANGED <<svcVars, dockerVars, expired>>

NextRun ==
    \/ InitialKick
    \/ ReconcileReturns
    \/ SelectDone
    \/ SelectErr
    \/ Reconnect
    \/ SelectEvent
    \/ SelectTick
    \/ EventArrives
    \/ TickFires
    \/ StreamFails
    \/ Cancel

SpecRun == InitRun /\ [][NextRun]_vars

\* the sleep after a stream error ends, and a select that finds its tick or
\* event case ready again and again receives from one of them (the choice
\* among ready cases is uniformly random)
SpecRunLive ==
    /\ SpecRun
    /\ WF_vars(Reconnect)
    /\ SF_vars(SelectTick \/ SelectEvent)

\* main, once Run has returned nil or context.Canceled: CleanupAllServices is
\* called
CleanupCalled ==
    /\ rpc = "returned"
    /\ rpc' = "cleanup"
    /\ UNCHANGED <<inflight, evq, tick, cancelled, streamErr, cycle, followups, rerr>>
    /\ UNCHANGED <<svcVars, dockerVars, expired>>

NextRunMain ==
    \/ NextRun
    \/ CleanupCalled

\* Run makes its first Reconcile call; a Reconcile call returns (its loops
\* are finite and a done context refuses every command); the sleep after a
\* stream error ends and WatchEvents returns at once; a select whose
\* ctx.Done() case is ready again and again eventually takes it (the choice
\* among ready cases is uniformly random); main goes on after Run
SpecRunMain ==
    /\ InitRun
    /\ [][NextRunMain]_vars
    /\ WF_vars(InitialKick)
    /\ WF_vars(ReconcileReturns)
    /\ WF_vars(Reconnect)
    /\ SF_vars(SelectDone)
    /\ WF_vars(CleanupCalled)

----------------------------------------------------------------------------
(* main: Run over the convergence engine, the signal goroutine that cancels *)
(* the root context, and CleanupAllServices under its own context once Run  *)
(* has returned.  rpc = "select" while Run is live (pc tells whether it is  *)
(* at its select or inside a cycle), rpc = "returned" afterwards.           *)

InitMain ==
    /\ InitSvc
    /\ rpc = "select"
    /\ inflight = 0
    /\ evq = <<>>
    /\ tick = FALSE
    /\ cancelled = FALSE
    /\ streamErr = FALSE
    /\ cycle = 0
    /\ followups = <<>>
    /\ rerr = FALSE
    /\ DockerOff

RunReconcile_detached ==
    /\ rpc \in {"select", "returned"}
    /\ pc \in {"idle", "stopped"}
    /\ \E running \in SUBSET pool, st \in Ctx(StatusOutcomes) :
         /\ Cardinality(running) <= MaxRunning
         /\ (st \notin {"ok", "ctx"}) => MaxFaults >= 1
         /\ \E cur \in (IF st = "ok" THEN GetCurrentServices(daemon) ELSE {EmptyMap}) :
              LET d  == ListOf(running)
                  dm == desiredMap(d)
              IN  /\ desired' = d
                  /\ current' = cur
                  /\ toAdd' = ToAdd(dm, cur)
                  /\ toRemove' = ToRemove(dm, cur)
                  /\ repeat' = (CleanCycle /\ d = desired)
                  /\ statusOk' = (st = "ok")
                  /\ faults' = (IF st \in {"ok", "ctx"} THEN 0 ELSE 1)
    /\ failCount' = 0
    /\ curFunnels' = EmptyMap
    /\ funnelTodo' = {}
    /\ syncTodo' = {}
    /\ syncFailed' = {}
    /\ cmds' = <<>>
    /\ http' = <<>>
    /\ result' = "none"
    /\ pc' = "services"
    /\ UNCHANGED <<runVars, dockerVars, expired>>
    /\ UNCHANGED <<daemon, funnels, remote, apiKey, pool>>

\* Run calls Reconcile, at start, on an event or on a tick, and waits for it
\* to return: Reconcile lists the containers and runs ReconcileServices on
\* the goroutine of Run
RunReconcile ==
    /\ rpc = "select"
    /\ StartCycle

\* case <-ctx.Done() of Run's select; Run is at its select between cycles
RunReturns ==
    /\ pc = "idle"
    /\ SelectDone

\* the signal arrives while removeService runs: during its drain, between the
\* drain and the clear, or during the clear
RemoveKilled ==
    /\ pc = "services"
    /\ ~cancelled
    /\ toRemove # {}
    /\ \E k \in toRemove, rd \in Interrupted(DrainOutcomes), rc \in Interrupted(ClearOutcomes) :
         LET r == removeService(daemon, current[k].ServiceName, rd, rc)
         IN  /\ KilledRun(r.cmds)
             /\ Bump(FailedBefore(r.cmds)) <= MaxFaults
             /\ faults' = Bump(FailedBefore(r.cmds))
             /\ daemon' \in KilledEffects(r.daemon, r.cmds)
             /\ cmds' = cmds \o r.cmds
             /\ toRemove' = toRemove \ {k}
    /\ cancelled' = TRUE
    /\ UNCHANGED <<rpc, inflight, evq, tick, streamErr, cycle, followups, rerr>>
    /\ UNCHANGED <<dockerVars, expired>>
    /\ UNCHANGED <<funnels, remote, apiKey, pool, desired, current, toAdd, failCount,
                   curFunnels, funnelTodo, syncTodo, syncFailed, http, statusOk,
                   repeat, result, pc>>

\* the signal arrives while addService runs: during a command or between the
\* serve, the clear and the second serve
AddKilled ==
    /\ pc = "services"
    /\ ~cancelled
    /\ AddsMayStart
    /\ toAdd # {}
    /\ \E k \in toAdd, r1 \in Interrupted(ServeOutcomes), rc \in Interrupted(ClearOutcomes),
          r2 \in Interrupted(ServeOutcomes) :
         LET r == addService(daemon, desiredMap(desired)[k], r1, rc, r2)
         IN  /\ KilledRun(r.cmds)
             /\ Bump(FailedBefore(r.cmds)) <= MaxFaults
             /\ faults' = Bump(FailedBefore(r.cmds))
             /\ daemon' \in KilledEffects(r.daemon, r.cmds)
             /\ cmds' = cmds \o r.cmds
             /\ failCount' = failCount + (IF r.err THEN 1 ELSE 0)
             /\ toAdd' = toAdd \ {k}
    /\ cancelled' = TRUE
    /\ UNCHANGED <<rpc, inflight, evq, tick, streamErr, cycle, followups, rerr>>
    /\ UNCHANGED <<dockerVars, expired>>
    /\ UNCHANGED <<funnels, remote, apiKey, pool, desired, current, toRemove,
                   curFunnels, funnelTodo, syncTodo, syncFailed, http, statusOk,
                   repeat, result, pc>>

\* the signal arrives while a funnel command of "Find funnels to add" runs
FunnelAddKilled ==
    /\ pc = "funnelAdd"
    /\ ~cancelled
    /\ funnelTodo # {}
    /\ \E serviceName \in funnelTodo, rr \in Interrupted(ResetOutcomes),
          ra \in Interrupted(FunnelOutcomes) :
         LET svc     == desiredFunnels(desired)[serviceName]
             exists  == serviceName \in DOMAIN curFunnels
             removed == IF exists /\ curFunnels[serviceName] # svc.FunnelFunnelPort
                        THEN removeFunnel(funnels, curFunnels[serviceName], rr)
                        ELSE [cmds |-> <<>>, funnels |-> funnels, err |-> FALSE]
             added   == IF ~exists \/ curFunnels[serviceName] # svc.FunnelFunnelPort
                        THEN addFunnel(removed.funnels, svc, ra)
                        ELSE [cmds |-> <<>>, funnels |-> funnels, err |-> FALSE]
             issued  == removed.cmds \o added.cmds
         IN  /\ KilledRun(issued)
             /\ Bump(FailedBefore(issued)) <= MaxFaults
             /\ faults' = Bump(FailedBefore(issued))
             /\ funnels' \in KilledFunnelEffects(added.funnels, issued)
             /\ cmds' = cmds \o issued
             /\ funnelTodo' = funnelTodo \ {serviceName}
    /\ cancelled' = TRUE
    /\ UNCHANGED <<rpc, inflight, evq, tick, streamErr, cycle, followups, rerr>>
    /\ UNCHANGED <<dockerVars, expired>>
    /\ UNCHANGED <<daemon, remote, apiKey, pool, desired, current, toRemove, toAdd,
                   failCount, curFunnels, syncTodo, syncFailed, http, statusOk,
                   repeat, result, pc>>

\* the signal arrives while the reset of "Find funnels to remove" runs
FunnelRemoveKilled ==
    /\ pc = "funnelRemove"
    /\ ~cancelled
    /\ funnelTodo # {}
    /\ \E hostPort \in funnelTodo, rr \in Interrupted(ResetOutcomes) :
         LET port      == curFunnels[hostPort]
             df        == desiredFunnels(desired)
             portInUse == \E k \in DOMAIN df : df[k].FunnelFunnelPort = port
             removed   == IF portInUse
                          THEN [cmds |-> <<>>, funnels |-> funnels, err |-> FALSE]
                          ELSE removeFunnel(funnels, port, rr)
         IN  /\ KilledRun(removed.cmds)
             /\ faults' = faults
             /\ funnels' \in KilledFunnelEffects(removed.funnels, removed.cmds)
             /\ cmds' = cmds \o removed.cmds
             /\ funnelTodo' = funnelTodo \ {hostPort}
    /\ cancelled' = TRUE
    /\ UNCHANGED <<rpc, inflight, evq, tick, streamErr, cycle, followups, rerr>>
    /\ UNCHANGED <<dockerVars, expired>>
    /\ UNCHANGED <<daemon, remote, apiKey, pool, desired, current, toRemove, toAdd,
                   failCount, curFunnels, syncTodo, syncFailed, http, statusOk,
                   repeat, result, pc>>

\* the signal arrives while SyncServiceDefinition runs: during the GET (no
\* answer is read), between the GET and the PUT (the PUT is refused by the
\* done context), or during the PUT, which the control plane may or may not
\* have stored; a request cut by the signal is no fault of the control plane
SyncKilled ==
    /\ pc = "sync"
    /\ ~cancelled
    /\ syncTodo # {}
    /\ \E name \in syncTodo, rg \in {"ok", "ctx"} :
         LET def    == uniqueServices(desired)[name]
             r      == SyncServiceDefinition(remote, name, def.Tags, def.Port, rg, "ctx")
             stored == SyncServiceDefinition(remote, name, def.Tags, def.Port, rg, "ok")
         IN  /\ r.err
             /\ remote' \in {r.remote, stored.remote}
             /\ http' = http \o r.http
             /\ syncFailed' = syncFailed \cup {name}
             /\ syncTodo' = syncTodo \ {name}
    /\ cancelled' = TRUE
    /\ UNCHANGED <<rpc, inflight, evq, tick, streamErr, cycle, followups, rerr>>
    /\ UNCHANGED <<dockerVars, expired>>
    /\ UNCHANGED <<daemon, funnels, apiKey, pool, desired, current, toRemove, toAdd,
                   failCount, curFunnels, funnelTodo, cmds, faults, statusOk, repeat,
                   result, pc>>

\* main, after Run has returned: CleanupAllServices under cleanupCtx, a
\* context of its own that the signal does not cancel
MainCleanup ==
    /\ rpc = "returned"
    /\ CleanupStart

NextMain ==
    \/ RunReconcile
    \/ RemoveStep
    \/ AddStep
    \/ EndServices
    \/ FunnelAddStep
    \/ FunnelAddDone
    \/ FunnelRemoveStep
    \/ FunnelRemoveDone
    \/ SyncStep
    \/ SyncDone
    \/ Cancel
    \/ RemoveKilled
    \/ AddKilled
    \/ FunnelAddKilled
    \/ FunnelRemoveKilled
    \/ SyncKilled
    \/ RunReturns
    \/ MainCleanup
    \/ CleanupFunnelStep
    \/ CleanupServices
    \/ CleanupServiceStep
    \/ CleanupDone

SpecMain == InitMain /\ [][NextMain]_vars

\* the daemon and the control plane accept the command or request of the step
Accepted == faults' = 0

\* Run at its select with a daemon that accepts every command: the ticker
\* case calls Reconcile again and again, and every step of a cycle succeeds
NextTicker ==
    \/ RunReconcile /\ Accepted
    \/ RemoveStep /\ Accepted
    \/ AddStep /\ Accepted
    \/ EndServices /\ Accepted
    \/ FunnelAddStep /\ Accepted
    \/ FunnelAddDone
    \/ FunnelRemoveStep /\ Accepted
    \/ FunnelRemoveDone
    \/ SyncStep /\ Accepted
    \/ SyncDone

\* the ticker fires every interval and a started cycle runs to its end
SpecTicker ==
    /\ InitMain
    /\ [][NextTicker]_vars
    /\ WF_vars(NextTicker)

----------------------------------------------------------------------------
(* docker.Client: container discovery.  Label values, ports, protocols and  *)
(* addresses are only compared, so they are TLA+ strings; a network name is  *)
(* the sequence of the pieces a compose project prefix joins; a container    *)
(* id is <<its first twelve characters, the rest>>.                          *)

validProtocols == {"http", "https", "https+insecure", "tcp", "tls-terminated-tcp"}

validServiceProtocols == {"http", "https", "tcp", "tls-terminated-tcp"}

Resolved(protocol, servicePort, serviceProtocol, err) ==
    [protocol |-> protocol, servicePort |-> servicePort,
     serviceProtocol |-> serviceProtocol, err |-> err]

resolveProtocols_defaultFromListenPort(containerID, targetPort, servicePort, serviceProtocol, protocol) ==
    LET p   == IF protocol # "" THEN protocol
               ELSE IF servicePort = "443" THEN "https" ELSE "http"
        tcp == p \in {"tcp", "tls-terminated-tcp"}
        sp  == IF servicePort # "" THEN servicePort
               ELSE IF serviceProtocol = "https" THEN "443" ELSE "80"
        spr == IF serviceProtocol # "" THEN serviceProtocol
               ELSE IF tcp THEN p
               ELSE IF servicePort = "443" THEN "https" ELSE "http"
    IN  IF p \notin validProtocols
        THEN Resolved("", "", "", "invalid protocol")
        ELSE IF spr \notin validServiceProtocols
        THEN Resolved("", "", "", "invalid service-protocol")
        ELSE Resolved(p, sp, spr, "")

\* resolveProtocols: (protocol, servicePort, serviceProtocol, error)
resolveProtocols(containerID, targetPort, servicePort, serviceProtocol, protocol) ==
    LET p   == IF protocol # "" THEN protocol
               ELSE IF targetPort = "443" THEN "https" ELSE "http"
        tcp == p \in {"tcp", "tls-terminated-tcp"}
        sp  == IF servicePort # "" THEN servicePort
               ELSE IF serviceProtocol = "" THEN "80"
               ELSE IF serviceProtocol = "https" THEN "443" ELSE "80"
        spr == IF serviceProtocol # "" THEN serviceProtocol
               ELSE IF servicePort = "" THEN (IF tcp THEN p ELSE "http")
               ELSE IF tcp THEN p
               ELSE IF servicePort = "443" THEN "https" ELSE "http"
    IN  IF p \notin validProtocols
        THEN Resolved("", "", "", "invalid protocol")
        ELSE IF spr \notin validServiceProtocols
        THEN Resolved("", "", "", "invalid service-protocol")
        ELSE Resolved(p, sp, spr, "")

HasSuffix(s, suffix) ==
    /\ Len(s) >= Len(suffix)
    /\ SubSeq(s, Len(s) - Len(suffix) + 1, Len(s)) = suffix

Dest(ip, port, err) == [ip |-> ip, port |-> port, err |-> err]

\* getContainerIP: the (ip, error) pairs the call can return; with several
\* candidate networks the one returned depends on map iteration order
getContainerIP(inspect, specifiedNetwork) ==
    LET networks == inspect.networks
        suffixed == {n \in DOMAIN networks : HasSuffix(n, <<"_">> \o specifiedNetwork)}
        withIP   == {n \in DOMAIN networks : networks[n] # ""}
        of(n)    == Dest(networks[n], "", networks[n] = "")
    IN  IF specifiedNetwork # <<>>
        THEN IF specifiedNetwork \in DOMAIN networks
             THEN {of(specifiedNetwork)}
             ELSE IF suffixed # {} THEN {of(n) : n \in suffixed}
             ELSE {Dest("", "", TRUE)}
        ELSE IF <<"bridge">> \in DOMAIN networks /\ networks[<<"bridge">>] # ""
        THEN {of(<<"bridge">>)}
        ELSE IF withIP # {} THEN {of(n) : n \in withIP}
        ELSE {Dest("", "", TRUE)}

\* the host port a container port is published on ("" when it is not)
HostPortOf(inspect, port) ==
    IF port \in DOMAIN inspect.bindings /\ inspect.bindings[port] # ""
    THEN inspect.bindings[port]
    ELSE IF port \in DOMAIN inspect.nsPorts THEN inspect.nsPorts[port]
    ELSE ""

resolveDestPort_networkSettingsFirst(cctx, targetPort) ==
    LET ns       == cctx.inspect.nsPorts
        hb       == cctx.inspect.bindings
        hostPort == IF targetPort \in DOMAIN ns /\ ns[targetPort] # ""
                    THEN ns[targetPort]
                    ELSE IF targetPort \in DOMAIN hb THEN hb[targetPort]
                    ELSE ""
    IN  IF cctx.isHostNetwork
        THEN {Dest("localhost", targetPort, FALSE)}
        ELSE IF cctx.isDirectMode
        THEN IF cctx.isNoNetwork
             THEN {Dest("", "", TRUE)}
             ELSE {IF r.err THEN Dest("", "", TRUE) ELSE Dest(r.ip, targetPort, FALSE) :
                      r \in getContainerIP(cctx.inspect, cctx.specifiedNetwork)}
        ELSE IF hostPort = ""
        THEN {Dest("", "", TRUE)}
        ELSE {Dest("localhost", hostPort, FALSE)}

\* resolveDestPort: the (destIP, destPort, error) triples the call can return
resolveDestPort(cctx, targetPort) ==
    IF cctx.isHostNetwork
    THEN {Dest("localhost", targetPort, FALSE)}
    ELSE IF cctx.isDirectMode
    THEN IF cctx.isNoNetwork
         THEN {Dest("", "", TRUE)}
         ELSE {IF r.err THEN Dest("", "", TRUE) ELSE Dest(r.ip, targetPort, FALSE) :
                  r \in getContainerIP(cctx.inspect, cctx.specifiedNetwork)}
    ELSE IF HostPortOf(cctx.inspect, targetPort) = ""
    THEN {Dest("", "", TRUE)}
    ELSE {Dest("localhost", HostPortOf(cctx.inspect, targetPort), FALSE)}

\* the white space strings.TrimSpace removes: the characters unicode.IsSpace
\* accepts. A character that has no escape in a string of this module is
\* written as the piece of its Go escape: "\\v" is U+000B, "\\u00a0" is
\* U+00A0.
WhiteSpace ==
    {" ", "\t", "\n", "\r", "\f", "\\v", "\\u0085", "\\u00a0", "\\u1680",
     "\\u2000", "\\u2001", "\\u2002", "\\u2003", "\\u2004", "\\u2005",
     "\\u2006", "\\u2007", "\\u2008", "\\u2009", "\\u200a", "\\u2028",
     "\\u2029", "\\u202f", "\\u205f", "\\u3000"}

RECURSIVE TrimLeft(_)
TrimLeft(part) ==
    IF part # <<>> /\ Head(part) \in WhiteSpace THEN TrimLeft(Tail(part)) ELSE part

RECURSIVE TrimRight(_)
TrimRight(part) ==
    IF part # <<>> /\ part[Len(part)] \in WhiteSpace
    THEN TrimRight(SubSeq(part, 1, Len(part) - 1))
    ELSE part

\* strings.TrimSpace on a text given as the sequence of its pieces (white
\* space characters and runs of other characters)
TrimSpace(part) == TrimRight(TrimLeft(part))

defaultTags == << <<"tag:container">> >>

\* the tags of a container: the non-blank parts of its tags label, trimmed,
\* or the default tags when the label is empty
RECURSIVE TagsOf(_)
TagsOf(parts) ==
    IF parts = <<>> THEN <<>>
    ELSE (IF TrimSpace(Head(parts)) # <<>> THEN <<TrimSpace(Head(parts))>> ELSE <<>>)
            \o TagsOf(Tail(parts))

Declaration(cctx, name, port, destPort, serviceProtocol, protocol, ip, funnel) ==
    [ContainerID      |-> cctx.containerID[1],
     ContainerName    |-> cctx.containerName,
     ServiceName      |-> name,
     Port             |-> port,
     TargetPort       |-> destPort,
     ServiceProtocol  |-> serviceProtocol,
     Protocol         |-> protocol,
     Tags             |-> cctx.tags,
     IPAddress        |-> ip,
     FunnelEnabled    |-> funnel.enabled,
     FunnelPort       |-> funnel.port,
     FunnelTargetPort |-> funnel.targetPort,
     FunnelFunnelPort |-> funnel.funnelPort,
     FunnelProtocol   |-> funnel.protocol]

NoFunnel ==
    [enabled |-> FALSE, port |-> "", targetPort |-> "", funnelPort |-> "",
     protocol |-> "", err |-> FALSE]

\* the funnel configuration parseContainer reads from the labels
FunnelOf(cctx, labels) ==
    LET funnelPort       == labels.funnelPort
        funnelProtocol   == IF labels.funnelProtocol = "" THEN "https"
                            ELSE labels.funnelProtocol
        funnelFunnelPort == IF labels.funnelFunnelPort = "" THEN "443"
                            ELSE labels.funnelFunnelPort
        funnelTargetPort == IF cctx.isHostNetwork \/ cctx.isDirectMode
                            THEN funnelPort
                            ELSE HostPortOf(cctx.inspect, funnelPort)
        bad == [NoFunnel EXCEPT !.err = TRUE]
    IN  IF labels.funnelEnable # "true" THEN NoFunnel
        ELSE IF funnelPort = "" THEN bad
        ELSE IF /\ funnelProtocol \in {"https", "http"}
                /\ funnelFunnelPort \notin {"443", "8443", "10000"}
        THEN bad
        ELSE IF funnelProtocol \notin {"https", "tcp", "tls-terminated-tcp"} THEN bad
        ELSE IF funnelTargetPort = "" THEN bad
        ELSE [enabled |-> TRUE, port |-> funnelPort, targetPort |-> funnelTargetPort,
              funnelPort |-> funnelFunnelPort, protocol |-> funnelProtocol,
              err |-> FALSE]

\* A value of Go's int (64 bits) is the sequence of its decimal digits, the
\* most significant first and without a leading zero: 42 is <<4, 2>>.

\* math.MaxInt: 9223372036854775807
MaxInt == <<9, 2, 2, 3, 3, 7, 2, 0, 3, 6, 8, 5, 4, 7, 7, 5, 8, 0, 7>>

\* the digits without their leading zeros
RECURSIVE Normal(_)
Normal(ds) == IF Len(ds) > 1 /\ ds[1] = 0 THEN Normal(Tail(ds)) ELSE ds

\* a <= b for two values of int
IntLeq(a, b) ==
    \/ Len(a) < Len(b)
    \/ /\ Len(a) = Len(b)
       /\ \/ a = b
          \/ \E i \in DOMAIN a :
                /\ a[i] < b[i]
                /\ \A j \in 1..(i - 1) : a[j] = b[j]

IntLess(a, b) == a # b /\ IntLeq(a, b)

RECURSIVE parseIndexedPorts_ownIP(_, _, _, _)
parseIndexedPorts_ownIP(cctx, labels, todo, usedServicePorts) ==
    IF todo = {} THEN {<<>>}
    ELSE
    LET idx      == CHOOSE i \in todo : \A j \in todo : IntLeq(i, j)
        e        == labels.indexed[idx]
        rest     == todo \ {idx}
        rp       == resolveProtocols(cctx.containerID, e.port, e.servicePort,
                                     e.serviceProtocol, e.protocol)
        dedupKey == e.name \o ":" \o rp.servicePort
        after    == parseIndexedPorts_ownIP(cctx, labels, rest,
                                            usedServicePorts \cup {dedupKey})
        svc(d)   == Declaration(cctx, e.name, rp.servicePort, d.port, rp.serviceProtocol,
                                rp.protocol, d.ip, NoFunnel)
    IN  IF e.name = "" \/ e.port = "" \/ rp.err # "" \/ dedupKey \in usedServicePorts
        THEN parseIndexedPorts_ownIP(cctx, labels, rest, usedServicePorts)
        ELSE UNION { IF d.err THEN after ELSE {<<svc(d)>> \o t : t \in after} :
                        d \in resolveDestPort(cctx, e.port) }

\* parseIndexedPorts from the indices todo on, in ascending order, with the
\* keys name + ":" + listen port used so far (strings, as the code builds
\* them): the lists the call can return
RECURSIVE parseIndexedPorts(_, _, _, _)
parseIndexedPorts(cctx, labels, todo, usedServicePorts) ==
    IF todo = {} THEN {<<>>}
    ELSE
    LET idx      == CHOOSE i \in todo : \A j \in todo : IntLeq(i, j)
        e        == labels.indexed[idx]
        rest     == todo \ {idx}
        rp       == resolveProtocols(cctx.containerID, e.port, e.servicePort,
                                     e.serviceProtocol, e.protocol)
        dedupKey == e.name \o ":" \o rp.servicePort
        after    == parseIndexedPorts(cctx, labels, rest, usedServicePorts \cup {dedupKey})
        svc(d)   == Declaration(cctx, e.name, rp.servicePort, d.port, rp.serviceProtocol,
                                rp.protocol,
                                IF cctx.isDirectMode /\ cctx.destIP # ""
                                THEN cctx.destIP ELSE d.ip,
                                NoFunnel)
    IN  IF e.name = "" \/ e.port = "" \/ rp.err # "" \/ dedupKey \in usedServicePorts
        THEN parseIndexedPorts(cctx, labels, rest, usedServicePorts)
        ELSE UNION { IF d.err THEN after ELSE {<<svc(d)>> \o t : t \in after} :
                        d \in resolveDestPort(cctx, e.port) }

Parsed(svcs, err) == [services |-> svcs, err |-> err]

\* parseContainer: the (declarations, error) pairs the call can return
parseContainer(cont) ==
    LET labels == cont.labels
        rp     == resolveProtocols(cont.id, labels.port, labels.servicePort,
                                   labels.serviceProtocol, labels.protocol)
        cctx0  == [containerID      |-> cont.id,
                   containerName    |-> cont.inspect.name,
                   specifiedNetwork |-> labels.network,
                   inspect          |-> cont.inspect,
                   tags             |-> <<>>,
                   destIP           |-> "",
                   isHostNetwork    |-> cont.inspect.mode = "host",
                   isNoNetwork      |-> cont.inspect.mode = "none",
                   isDirectMode     |-> labels.direct # "false"]
        tags   == IF labels.tags # <<>> THEN TagsOf(labels.tags) ELSE defaultTags
        built(d) ==
            LET cctx   == [cctx0 EXCEPT !.tags = tags, !.destIP = d.ip]
                funnel == FunnelOf(cctx, labels)
                primary == Declaration(cctx, labels.name, rp.servicePort, d.port,
                                       rp.serviceProtocol, rp.protocol, d.ip, funnel)
            IN  IF funnel.err THEN {Parsed(<<>>, TRUE)}
                ELSE {Parsed(<<primary>> \o t, FALSE) :
                         t \in parseIndexedPorts(cctx, labels, DOMAIN labels.indexed,
                                                 {labels.name \o ":" \o rp.servicePort})}
    IN  IF labels.enable # "true" THEN {Parsed(<<>>, FALSE)}
        ELSE IF labels.name = "" THEN {Parsed(<<>>, TRUE)}
        ELSE IF labels.port = "" THEN {Parsed(<<>>, TRUE)}
        ELSE IF rp.err # "" THEN {Parsed(<<>>, TRUE)}
        ELSE IF ~cont.inspect.ok THEN {Parsed(<<>>, TRUE)}
        ELSE UNION { IF d.err THEN {Parsed(<<>>, TRUE)} ELSE built(d) :
                        d \in resolveDestPort(cctx0, labels.port) }

\* ContainerList with the filter label enable=true
RECURSIVE ContainerList(_)
ContainerList(running) ==
    IF running = <<>> THEN <<>>
    ELSE (IF Head(running).labels.enable = "true" THEN <<Head(running)>> ELSE <<>>)
            \o ContainerList(Tail(running))

RECURSIVE GetEnabledContainers_abortsOnError(_)
GetEnabledContainers_abortsOnError(containers) ==
    IF containers = <<>> THEN {Parsed(<<>>, FALSE)}
    ELSE UNION { IF p.err THEN {Parsed(<<>>, TRUE)}
                 ELSE {Parsed(p.services \o t.services, t.err) :
                          t \in GetEnabledContainers_abortsOnError(Tail(containers))} :
                    p \in parseContainer(Head(containers)) }

\* GetEnabledContainers over the listed containers: a container that fails to
\* parse is skipped
RECURSIVE GetEnabledContainers(_)
GetEnabledContainers(containers) ==
    IF containers = <<>> THEN {Parsed(<<>>, FALSE)}
    ELSE UNION { {Parsed((IF p.err THEN <<>> ELSE p.services) \o t.services, FALSE) :
                     t \in GetEnabledContainers(Tail(containers))} :
                    p \in parseContainer(Head(containers)) }

(* Inputs of the discovery *)

BaseLabels ==
    [enable |-> "true", name |-> "web", port |-> "8080", protocol |-> "",
     servicePort |-> "", serviceProtocol |-> "", tags |-> <<>>,
     funnelEnable |-> "", funnelPort |-> "", funnelProtocol |-> "",
     funnelFunnelPort |-> "", direct |-> "", network |-> <<>>, indexed |-> <<>>]

BaseInspect ==
    [ok |-> TRUE, name |-> "web", mode |-> "default",
     networks |-> (<<"bridge">> :> "172.17.0.2"),
     bindings |-> <<>>, nsPorts |-> <<>>]

Indexed(name, port, servicePort, serviceProtocol, protocol) ==
    [name |-> name, port |-> port, servicePort |-> servicePort,
     serviceProtocol |-> serviceProtocol, protocol |-> protocol]

Container(n, labels, inspect) ==
    [id |-> <<ToString(n), "tail">>, labels |-> labels, inspect |-> inspect]

(* The indexed labels as the container carries them: a key                  *)
(* "docktail.service.<N>.<field>" is the pair <<N, field>>, N the sequence   *)
(* of its characters.                                                       *)

\* the decimal digits and their values; a text N is the sequence of its
\* characters
Digits ==
    "0" :> 0 @@ "1" :> 1 @@ "2" :> 2 @@ "3" :> 3 @@ "4" :> 4
    @@ "5" :> 5 @@ "6" :> 6 @@ "7" :> 7 @@ "8" :> 8 @@ "9" :> 9

\* \d+: one decimal digit or more
IsDigits(text) ==
    /\ text # <<>>
    /\ \A i \in DOMAIN text : text[i] \in DOMAIN Digits

\* strconv.Atoi on a text that matched \d+: (value, error); a value above
\* math.MaxInt is a range error
Atoi(text) ==
    LET ds == Normal([i \in DOMAIN text |-> Digits[text[i]]])
    IN  IF IntLeq(ds, MaxInt) THEN [val |-> ds, err |-> FALSE]
        ELSE [val |-> MaxInt, err |-> TRUE]

\* fmt.Sprintf("%d", n) for n >= 0
Itoa(n) ==
    LET digit(d) == CHOOSE c \in DOMAIN Digits : Digits[c] = d
    IN  [i \in DOMAIN n |-> digit(n[i])]

\* indexedPortRegex: ^docktail\.service\.(\d+)\.port$
indexedPortRegex(key) == key[2] = "port" /\ IsDigits(key[1])

\* "Collect all indices from labels": a key whose number Atoi rejects is
\* skipped
CollectIndices(labels) ==
    {Atoi(key[1]).val : key \in {k \in DOMAIN labels :
                                    indexedPortRegex(k) /\ ~Atoi(k[1]).err}}

\* labels[fmt.Sprintf("docktail.service.%d.", idx) + field]
IndexedLabel(labels, idx, field) ==
    IF <<Itoa(idx), field>> \in DOMAIN labels
    THEN labels[<<Itoa(idx), field>>] ELSE ""

\* what parseIndexedPorts reads for each collected index
IndexedLabels(labels) ==
    [idx \in CollectIndices(labels) |->
        Indexed(IndexedLabel(labels, idx, "name"),
                IndexedLabel(labels, idx, "port"),
                IndexedLabel(labels, idx, "service-port"),
                IndexedLabel(labels, idx, "service-protocol"),
                IndexedLabel(labels, idx, "protocol"))]

\* indexed labels of the containers 23 to 26 and 29
RawIndexed ==
    23 :> (<< <<"1">>, "service-port">> :> "3000" @@ << <<"1">>, "name">> :> "api"
           @@ << <<"a", "b", "c">>, "port">> :> "9090"
           @@ << <<"a", "b", "c">>, "name">> :> "db"
           @@ << <<>>, "port">> :> "9091" @@ << <<>>, "name">> :> "cache")
    @@ 24 :> (<< <<"5">>, "port">> :> "9092" @@ << <<"5">>, "name">> :> "db"
              @@ << <<"1">>, "port">> :> "9090" @@ << <<"1">>, "name">> :> "api"
              @@ << <<"3">>, "port">> :> "9091"
              @@ << <<"4", "2">>, "port">> :> "9093"
              @@ << <<"4", "2">>, "name">> :> "cache"
              @@ << <<"4", "2">>, "service-port">> :> "8443")
    @@ 25 :> (<< <<"0">>, "port">> :> "9090" @@ << <<"0">>, "name">> :> "api")
    @@ 26 :> (<< <<"0", "1">>, "port">> :> "9090" @@ << <<"0", "1">>, "name">> :> "api")
    @@ 29 :> (<< <<"1">>, "port">> :> "9090" @@ << <<"1">>, "name">> :> "api"
              @@ << <<"9", "9", "9", "9", "9", "9", "9", "9", "9", "9">>, "port">> :> "9091"
              @@ << <<"9", "9", "9", "9", "9", "9", "9", "9", "9", "9">>, "name">> :> "db"
              @@ << <<"9", "9", "9", "9", "9", "9", "9", "9", "9", "9",
                      "9", "9", "9", "9", "9", "9", "9", "9", "9", "9">>, "port">> :> "9092"
              @@ << <<"9", "9", "9", "9", "9", "9", "9", "9", "9", "9",
                      "9", "9", "9", "9", "9", "9", "9", "9", "9", "9">>, "name">> :> "cache")

\* the containers that may run on the host
Labelled ==
    << Container(1, BaseLabels, BaseInspect),
       Container(2, [BaseLabels EXCEPT !.enable = "false"], BaseInspect),
       Container(3, [BaseLabels EXCEPT !.enable = "True"], BaseInspect),
       Container(4, [BaseLabels EXCEPT !.name = ""], BaseInspect),
       Container(5, [BaseLabels EXCEPT !.port = ""], BaseInspect),
       Container(6, [BaseLabels EXCEPT !.protocol = "udp"], BaseInspect),
       Container(7, [BaseLabels EXCEPT !.serviceProtocol = "https+insecure"], BaseInspect),
       Container(8, [BaseLabels EXCEPT !.name = "db", !.port = "5432", !.protocol = "tcp",
                                       !.servicePort = "5432", !.tags = << <<" ", "tag:b", " ">>, <<" ">>,
                                                   <<"\t", "\\v", "tag:c">>,
                                                   <<"\\u0085", "tag:a", "\\u00a0", " ">> >>],
                    [BaseInspect EXCEPT !.name = "db"]),
       Container(9, [BaseLabels EXCEPT !.indexed =
                        (<<1>> :> Indexed("api", "9090", "", "", "")
                         @@ <<2>> :> Indexed("web", "9091", "80", "", "")
                         @@ <<3>> :> Indexed("api", "9092", "443", "", "udp"))],
                    BaseInspect),
       Container(10, [BaseLabels EXCEPT !.port = "443"],
                     [BaseInspect EXCEPT !.mode = "host"]),
       Container(11, BaseLabels, [BaseInspect EXCEPT !.mode = "none"]),
       Container(12, [BaseLabels EXCEPT !.direct = "false"],
                     [BaseInspect EXCEPT !.bindings = ("8080" :> "18080")]),
       Container(13, [BaseLabels EXCEPT !.direct = "false"], BaseInspect),
       Container(14, [BaseLabels EXCEPT !.funnelEnable = "true", !.funnelPort = "8080"],
                     BaseInspect),
       Container(15, [BaseLabels EXCEPT !.funnelEnable = "true"], BaseInspect),
       Container(16, BaseLabels, [BaseInspect EXCEPT !.ok = FALSE]),
       Container(17, [BaseLabels EXCEPT !.network = <<"backend">>],
                     [BaseInspect EXCEPT !.networks =
                         (<<"proj", "_", "backend">> :> "10.0.0.5"
                          @@ <<"other", "_", "backend">> :> "")]),
       Container(18, [BaseLabels EXCEPT !.indexed =
                        (<<1>> :> Indexed("api", "9090", "", "", "")
                         @@ <<2>> :> Indexed("api", "9091", "80", "http", "")
                         @@ <<3>> :> Indexed("db", "9092", "", "", "")
                         @@ <<5>> :> Indexed("web", "9093", "443", "", ""))],
                     BaseInspect),
       Container(19, [BaseLabels EXCEPT !.direct = "false", !.indexed =
                        (<<1>> :> Indexed("api", "9090", "", "", "")
                         @@ <<2>> :> Indexed("db", "9092", "", "", "")
                         @@ <<3>> :> Indexed("api", "9092", "", "", ""))],
                     [BaseInspect EXCEPT !.bindings =
                         ("8080" :> "18080" @@ "9092" :> "19092")]),
       Container(20, [BaseLabels EXCEPT !.direct = "false", !.indexed =
                        (<<1>> :> Indexed("api", "9090", "", "", ""))],
                     [BaseInspect EXCEPT !.bindings = ("9090" :> "19090")]),
       Container(21, [BaseLabels EXCEPT !.port = "8080/tcp"], BaseInspect),
       Container(22, [BaseLabels EXCEPT !.servicePort = "70000", !.indexed =
                        (<<1>> :> Indexed("api", "9090", "0", "", ""))],
                     BaseInspect),
       Container(23, [BaseLabels EXCEPT !.indexed = IndexedLabels(RawIndexed[23])],
                     BaseInspect),
       Container(24, [BaseLabels EXCEPT !.indexed = IndexedLabels(RawIndexed[24])],
                     BaseInspect),
       Container(25, [BaseLabels EXCEPT !.indexed = IndexedLabels(RawIndexed[25])],
                     BaseInspect),
       Container(26, [BaseLabels EXCEPT !.indexed = IndexedLabels(RawIndexed[26])],
                     BaseInspect),
       Container(27, [BaseLabels EXCEPT !.indexed =
                        (<<1>> :> Indexed("api", "9090", "", "", "")
                         @@ <<2>> :> Indexed("db", "5432", "5432", "", "tcp"))],
                     [BaseInspect EXCEPT !.networks =
                         (<<"frontend">> :> "10.0.1.5" @@ <<"backend">> :> "10.0.0.5")]),
       Container(28, [BaseLabels EXCEPT !.indexed =
                        (<<1>> :> Indexed("a:1", "9090", "2", "", "")
                         @@ <<2>> :> Indexed("b", "9091", "1:2", "", "")
                         @@ <<3>> :> Indexed("a", "9092", "1:2", "", ""))],
                     BaseInspect),
       Container(29, [BaseLabels EXCEPT !.indexed = IndexedLabels(RawIndexed[29])],
                     BaseInspect) >>

\* the lists of running containers: distinct containers, in any order
RECURSIVE Listings(_)
Listings(n) ==
    IF n = 0 THEN {<<>>}
    ELSE Listings(n - 1)
            \cup {Append(l, i) : l \in {x \in Listings(n - 1) : Len(x) = n - 1},
                                 i \in DOMAIN Labelled}

Distinct(l) == \A i, j \in DOMAIN l : l[i] = l[j] => i = j

ResolveInputs ==
    [targetPort      : {"443", "80", "8080"},
     servicePort     : {"", "80", "443", "8443"},
     serviceProtocol : {"", "http", "https", "tcp", "tls-terminated-tcp", "https+insecure"},
     protocol        : {"", "http", "https", "https+insecure", "tcp",
                        "tls-terminated-tcp", "udp"}]

NoResolve == [targetPort |-> "", servicePort |-> "", serviceProtocol |-> "", protocol |-> ""]

\* the networks a container can be attached to, with its address on each
NetworkSettings ==
    { <<>>,
      <<"bridge">> :> "172.17.0.2",
      <<"bridge">> :> "" @@ <<"backend">> :> "10.0.0.5",
      <<"frontend">> :> "10.0.1.5" @@ <<"backend">> :> "10.0.0.5",
      <<"proj", "_", "backend">> :> "10.0.2.5" @@ <<"bridge">> :> "172.17.0.2",
      <<"backend">> :> "" @@ <<"proj", "_", "backend">> :> "10.0.2.5" }

\* host-config port bindings and network-settings ports: container port ->
\* host port of the first binding
PortBindings ==
    { <<>>, "8080" :> "18080", "8080" :> "", "9090" :> "19090" }

NetworkPorts == { <<>>, "8080" :> "28080" }

DestInputs ==
    [mode       : {"host", "none", "default"},
     direct     : {"", "false", "true"},
     network    : {<<>>, <<"backend">>},
     networks   : NetworkSettings,
     bindings   : PortBindings,
     nsPorts    : NetworkPorts,
     targetPort : {"8080"}]

NoDest ==
    [mode |-> "", direct |-> "", network |-> <<>>, networks |-> <<>>,
     bindings |-> <<>>, nsPorts |-> <<>>, targetPort |-> ""]

\* the containerCtx parseContainer builds for such a container
DestCtx(d) ==
    [containerID      |-> <<"0", "tail">>,
     containerName    |-> "web",
     specifiedNetwork |-> d.network,
     inspect          |-> [ok |-> TRUE, name |-> "web", mode |-> d.mode,
                           networks |-> d.networks, bindings |-> d.bindings,
                           nsPorts |-> d.nsPorts],
     tags             |-> <<>>,
     destIP           |-> "",
     isHostNetwork    |-> d.mode = "host",
     isNoNetwork      |-> d.mode = "none",
     isDirectMode     |-> d.direct # "false"]

InitDocker ==
    /\ \/ /\ dpc = "resolve"
          /\ rin \in ResolveInputs
          /\ listing = <<>>
          /\ din = NoDest
       \/ /\ dpc = "list"
          /\ rin = NoResolve
          /\ \E l \in Listings(MaxListed) :
                /\ l # <<>>
                /\ Distinct(l)
                /\ listing = [i \in DOMAIN l |-> Labelled[l[i]]]
          /\ din = NoDest
       \/ /\ dpc = "dest"
          /\ rin = NoResolve
          /\ listing = <<>>
          /\ din \in DestInputs
    /\ rout = Resolved("", "", "", "")
    /\ dout = Dest("", "", FALSE)
    /\ discovered = Parsed(<<>>, FALSE)
    /\ SvcOff
    /\ RunOff

\* one call of resolveProtocols
Resolve ==
    /\ dpc = "resolve"
    /\ rout' = resolveProtocols(<<"0", "tail">>, rin.targetPort, rin.servicePort,
                                rin.serviceProtocol, rin.protocol)
    /\ dpc' = "resolved"
    /\ UNCHANGED <<listing, discovered, rin, din, dout>>
    /\ UNCHANGED <<svcVars, runVars, expired>>

\* one call of GetEnabledContainers whose ContainerList succeeded
Discover ==
    /\ dpc = "list"
    /\ \E r \in GetEnabledContainers(ContainerList(listing)) : discovered' = r
    /\ dpc' = "listed"
    /\ UNCHANGED <<listing, rin, rout, din, dout>>
    /\ UNCHANGED <<svcVars, runVars, expired>>

\* one call of GetEnabledContainers whose ContainerList failed
DiscoverFails ==
    /\ dpc = "list"
    /\ discovered' = Parsed(<<>>, TRUE)
    /\ dpc' = "listFailed"
    /\ UNCHANGED <<listing, rin, rout, din, dout>>
    /\ UNCHANGED <<svcVars, runVars, expired>>

\* one call of resolveDestPort
ResolveDest ==
    /\ dpc = "dest"
    /\ \E d \in resolveDestPort(DestCtx(din), din.targetPort) : dout' = d
    /\ dpc' = "destResolved"
    /\ UNCHANGED <<listing, discovered, rin, rout, din>>
    /\ UNCHANGED <<svcVars, runVars, expired>>

NextDocker ==
    \/ Resolve
    \/ ResolveDest
    \/ Discover
    \/ DiscoverFails

SpecDocker == InitDocker /\ [][NextDocker]_vars

----------------------------------------------------------------------------
(* Properties *)

\* a cycle has returned
CycleDone == pc = "idle" /\ result # "none"

\* the status was read and every command and request of the cycle succeeded
AllAccepted == statusOk /\ faults = 0

StartsWithSvc(id) ==
    /\ Len(id) >= 4
    /\ id[1] = "s" /\ id[2] = "v" /\ id[3] = "c" /\ id[4] = ":"

ServiceOps == {"serve", "clear", "drain"}

\* (service name, listen port) pairs and the key both sides are diffed by
EndpointNames == {NameA, NameB, NameA1}

EndpointPorts == {P80, P443, P8080, P2, P1c2}

EndpointKey(name, port) == <<"s", "v", "c", ":">> \o name \o <<":">> \o port

\* the declaration of the list that stands for a key: the one listed last
Declared(name, port) ==
    {i \in DOMAIN desired : desired[i].ServiceName = name /\ desired[i].Port = port}

LastDeclared(name, port) ==
    desired[CHOOSE i \in Declared(name, port) : \A j \in Declared(name, port) : j <= i]

DesiredUrl(d) == <<d.Protocol, "://", d.IPAddress, ":", d.TargetPort>>

\* the diff has been computed and no command has been issued yet
AtDiff == pc = "services" /\ cmds = <<>>

\* C1: every serve, clear or drain command of a cycle or of the shutdown
\* cleanup names a service id that starts with "svc:", and the service that
\* somebody else created on the daemon is still there, untouched.
Inv_C1 ==
    /\ \A i \in DOMAIN cmds :
          cmds[i].op \in ServiceOps => StartsWithSvc(cmds[i].svc)
    /\ ExternalId \in DOMAIN daemon
    /\ daemon[ExternalId] = ExternalService

\* the shutdown cleanup has drained and cleared a managed service
Wit_C1 ==
    /\ pc = "stopped"
    /\ \E i \in DOMAIN cmds : cmds[i].op = "clear" /\ cmds[i].res = "ok"
    /\ ExternalId \in DOMAIN daemon

\* the entries of the observed map for a (service name, listen port) pair
Observed(name, port) ==
    {k \in DOMAIN current : /\ current[k].ServiceName = SvcPrefix \o name
                            /\ current[k].Port = port}

\* the add/updates the diff holds for the pair: the entries of toAdd whose
\* declaration is one of the pair
AddsOf(name, port) ==
    {k \in toAdd : /\ desiredMap(desired)[k].ServiceName = name
                   /\ desiredMap(desired)[k].Port = port}

\* the withdrawals the diff holds for the pair
WithdrawalsOf(name, port) == toRemove \cap Observed(name, port)

\* C2: the diff classifies every (service name, listen port) pair by the
\* rule: declared and not observed -> add; declared and observed -> update
\* iff the observed destination differs from <backend>://<host>:<port> or the
\* observed protocol differs from the declared listen protocol, else nothing;
\* observed and not declared -> withdraw.
Cex_C2 ==
    AtDiff =>
      \A name \in EndpointNames, port \in EndpointPorts :
         LET inD == Declared(name, port) # {}
             inO == Observed(name, port) # {}
         IN  /\ (inD /\ ~inO) =>
                   (AddsOf(name, port) # {} /\ WithdrawalsOf(name, port) = {})
             /\ (inD /\ inO) =>
                   /\ WithdrawalsOf(name, port) = {}
                   /\ AddsOf(name, port) # {} <=>
                        \E k \in Observed(name, port) :
                           \/ current[k].Destination # DesiredUrl(LastDeclared(name, port))
                           \/ current[k].Protocol # LastDeclared(name, port).ServiceProtocol
             /\ (~inD /\ inO) =>
                   (WithdrawalsOf(name, port) # {} /\ AddsOf(name, port) = {})
             /\ (~inD /\ ~inO) =>
                   (WithdrawalsOf(name, port) = {} /\ AddsOf(name, port) = {})

\* the managed (service name, listen port) endpoints on the daemon
ManagedEndpoints ==
    UNION { {<<SubSeq(id, 5, Len(id)), port>> : port \in DOMAIN daemon[id].TCP} :
            id \in {x \in DOMAIN daemon : StartsWithSvc(x)} }

DesiredEndpoints == {<<desired[i].ServiceName, desired[i].Port>> : i \in DOMAIN desired}

\* C3: when the daemon accepted every command of a cycle, the managed
\* endpoints on the daemon equal the desired set when the cycle ends.
Cex_C3 ==
    (CycleDone /\ AllAccepted) => ManagedEndpoints = DesiredEndpoints

\* C4: a cycle that re-runs the desired list of a cycle whose commands all
\* succeeded issues no serve, clear or drain command.
Cex_C4 ==
    (CycleDone /\ repeat /\ AllAccepted) =>
        \A i \in DOMAIN cmds : cmds[i].op \notin ServiceOps

\* C5: a withdrawal issues a drain and then a clear of the same service,
\* whatever the drain answered, and only a failed clear makes it fail (the
\* cleanup counts one error per failed reset and per failed clear).
Inv_C5 ==
    /\ \A i \in DOMAIN cmds :
         /\ (cmds[i].by = "removeService" /\ cmds[i].op = "drain") =>
               /\ i + 1 \in DOMAIN cmds
               /\ cmds[i + 1].by = "removeService"
               /\ cmds[i + 1].op = "clear"
               /\ cmds[i + 1].svc = cmds[i].svc
         /\ (cmds[i].by = "removeService" /\ cmds[i].op = "clear") =>
               /\ i - 1 \in DOMAIN cmds
               /\ cmds[i - 1].by = "removeService"
               /\ cmds[i - 1].op = "drain"
               /\ cmds[i - 1].svc = cmds[i].svc
         /\ cmds[i].by = "removeService" => cmds[i].op \in {"drain", "clear"}
    /\ pc \in {"cleanupFunnels", "cleanupServices", "stopped"} =>
         failCount = Cardinality({i \in DOMAIN cmds :
                                    /\ cmds[i].op \in {"clear", "funnel-reset"}
                                    /\ cmds[i].res \notin {"ok", "notfound"}})

\* a withdrawal whose drain failed has cleared the service, and the cleanup
\* it belongs to returned success
Wit_C5 ==
    /\ pc = "stopped"
    /\ result = "ok"
    /\ \E i \in DOMAIN cmds :
         /\ cmds[i].op = "drain" /\ cmds[i].res = "error"
         /\ i + 1 \in DOMAIN cmds
         /\ cmds[i + 1].op = "clear" /\ cmds[i + 1].res = "ok"

\* positions of the log: the first serve of an add/update, and its retry
IsServe(i) == cmds[i].op = "serve"

IsRetry(i) ==
    /\ IsServe(i)
    /\ i - 1 \in DOMAIN cmds
    /\ cmds[i - 1].by = "clearServiceOnly"
    /\ cmds[i - 1].res \in {"ok", "notfound"}

IsFirstServe(i) == IsServe(i) /\ ~IsRetry(i)

IsConflictClear(i) == cmds[i].by = "clearServiceOnly"

SameEndpoint(i, j) ==
    /\ cmds[i].svc = cmds[j].svc
    /\ cmds[i].port = cmds[j].port
    /\ cmds[i].flag = cmds[j].flag
    /\ cmds[i].dest = cmds[j].dest

\* the add/updates of the log that failed
AddFailures ==
    Cardinality({i \in DOMAIN cmds :
                   \/ IsFirstServe(i) /\ cmds[i].res = "error"
                   \/ IsConflictClear(i) /\ cmds[i].res = "error"
                   \/ IsRetry(i) /\ cmds[i].res # "ok"})

InCycle == pc \in {"services", "funnelAdd", "funnelRemove", "sync", "idle"}

\* C6 as stated: a first serve that reports a conflict is followed by one
\* clear without drain and then by exactly one retry of the same serve.
Cex_C6 ==
    \A i \in DOMAIN cmds :
        (IsFirstServe(i) /\ cmds[i].res = "conflict") =>
            /\ i + 2 \in DOMAIN cmds
            /\ IsConflictClear(i + 1)
            /\ cmds[i + 1].op = "clear"
            /\ cmds[i + 1].svc = cmds[i].svc
            /\ IsServe(i + 2)
            /\ SameEndpoint(i, i + 2)

\* C6 as amended: a first serve that reports a conflict is followed by one
\* clear without drain; when the clear succeeds or reports not-found the same
\* serve is retried exactly once and a failed retry is the endpoint's error;
\* when the clear fails, that is the endpoint's error and there is no retry.
\* At most two serves per endpoint per cycle, no drain on this path.
Inv_C6 ==
    /\ \A i \in DOMAIN cmds :
         /\ (IsFirstServe(i) /\ cmds[i].res = "conflict") =>
               /\ i + 1 \in DOMAIN cmds
               /\ IsConflictClear(i + 1)
               /\ cmds[i + 1].op = "clear"
               /\ cmds[i + 1].svc = cmds[i].svc
               /\ IF cmds[i + 1].res \in {"ok", "notfound"}
                  THEN /\ i + 2 \in DOMAIN cmds
                       /\ IsServe(i + 2)
                       /\ SameEndpoint(i, i + 2)
                  ELSE i + 2 \in DOMAIN cmds =>
                          ~(IsServe(i + 2) /\ SameEndpoint(i, i + 2))
         /\ IsRetry(i) => (i + 1 \in DOMAIN cmds => ~IsConflictClear(i + 1))
         /\ IsConflictClear(i) =>
               /\ cmds[i].op = "clear"
               /\ i - 1 \in DOMAIN cmds
               /\ IsFirstServe(i - 1)
               /\ cmds[i - 1].res = "conflict"
         /\ IsServe(i) =>
               Cardinality({j \in DOMAIN cmds : IsServe(j) /\ SameEndpoint(i, j)}) <= 2
    /\ InCycle => failCount = AddFailures

\* an add met a conflict, cleared the service, retried, and the failed retry
\* made the cycle fail
Wit_C6 ==
    /\ CycleDone
    /\ result = "error"
    /\ failCount = 1
    /\ \E i \in DOMAIN cmds :
         /\ IsFirstServe(i) /\ cmds[i].res = "conflict"
         /\ i + 2 \in DOMAIN cmds
         /\ cmds[i + 1].res = "ok"
         /\ cmds[i + 2].res = "error"

\* C7: in the command log of a cycle no withdraw command (drain or clear of
\* removeService) comes after a command of an add/update.
Inv_C7 ==
    \A i, j \in DOMAIN cmds :
        (i < j /\ cmds[i].by \in {"addService", "clearServiceOnly"}) =>
            cmds[j].by # "removeService"

\* a cycle that withdrew a service and then added one
Wit_C7 ==
    /\ CycleDone
    /\ \E i, j \in DOMAIN cmds :
         /\ i < j
         /\ cmds[i].by = "removeService"
         /\ cmds[j].by = "addService"

\* C8: a service observed on (80, http) and declared on (443, https) is
\* updated by one clear-and-retry, without any drain, and ends on (443, https).
Cex_C8 ==
    ( /\ CycleDone
      /\ AllAccepted
      /\ DOMAIN current = {EndpointKey(NameA, P80)}
      /\ current[EndpointKey(NameA, P80)].Protocol = "http"
      /\ Len(desired) = 1
      /\ desired[1].ServiceName = NameA
      /\ desired[1].Port = P443
      /\ desired[1].ServiceProtocol = "https" )
    =>
    ( /\ \A i \in DOMAIN cmds : cmds[i].op # "drain"
      /\ Cardinality({i \in DOMAIN cmds : IsConflictClear(i)}) = 1
      /\ Cardinality({i \in DOMAIN cmds : IsRetry(i)}) = 1
      /\ SvcPrefix \o NameA \in DOMAIN daemon
      /\ DOMAIN daemon[SvcPrefix \o NameA].TCP = {P443}
      /\ daemon[SvcPrefix \o NameA].TCP[P443].HTTPS )

\* keys observed at the start of the cycle that are no longer declared
Withdrawn ==
    {key \in DOMAIN current :
        \A i \in DOMAIN desired :
            key # EndpointKey(desired[i].ServiceName, desired[i].Port)}

\* the daemon serves the declaration d
Advertised(d) ==
    LET id == <<"s", "v", "c", ":">> \o d.ServiceName
    IN  /\ id \in DOMAIN daemon
        /\ d.Port \in DOMAIN daemon[id].TCP
        /\ daemon[id].TCP[d.Port].HTTP = (d.ServiceProtocol = "http")
        /\ daemon[id].TCP[d.Port].HTTPS = (d.ServiceProtocol = "https")

\* C9: a cycle that withdraws an endpoint issues drain then clear on its
\* service, and every declared endpoint that was observed with the right
\* destination and protocol is still advertised when the cycle ends.
Cex_C9 ==
    (CycleDone /\ AllAccepted /\ Withdrawn # {}) =>
        /\ \A key \in Withdrawn :
              \E i \in DOMAIN cmds :
                  /\ cmds[i].op = "drain"
                  /\ cmds[i].svc = current[key].ServiceName
                  /\ i + 1 \in DOMAIN cmds
                  /\ cmds[i + 1].op = "clear"
                  /\ cmds[i + 1].svc = current[key].ServiceName
        /\ \A name \in EndpointNames, port \in EndpointPorts :
              ( /\ Declared(name, port) # {}
                /\ EndpointKey(name, port) \in DOMAIN current
                /\ current[EndpointKey(name, port)].Destination
                      = DesiredUrl(LastDeclared(name, port))
                /\ current[EndpointKey(name, port)].Protocol
                      = LastDeclared(name, port).ServiceProtocol )
              => Advertised(LastDeclared(name, port))

\* two funnel-enabled declarations of the list share a public port
PublicPortConflict ==
    \E i, j \in DOMAIN desired :
        /\ i # j
        /\ desired[i].FunnelEnabled
        /\ desired[j].FunnelEnabled
        /\ desired[i].FunnelFunnelPort = desired[j].FunnelFunnelPort

\* C10: a cycle returns success iff none of its add/updates failed and its
\* funnel declarations have no public-port conflict; failed withdrawals,
\* funnel commands and control-plane requests do not change that.
Inv_C10 ==
    CycleDone => (result = "ok" <=> (AddFailures = 0 /\ ~PublicPortConflict))

\* a cycle whose withdrawal failed at the clear returned success
Wit_C10 ==
    /\ CycleDone
    /\ result = "ok"
    /\ \E i \in DOMAIN cmds :
         cmds[i].by = "removeService" /\ cmds[i].op = "clear" /\ cmds[i].res = "error"

\* positions of the log that hold a funnel command
IsFunnelEnable(i) == cmds[i].op = "funnel"

IsFunnelReset(i) == cmds[i].op = "funnel-reset"

\* C11: when two funnel-enabled declarations of a cycle share a public port,
\* the cycle issues no funnel-enable and no funnel-reset command and returns
\* failure, whatever funnels are active.
Inv_C11 ==
    PublicPortConflict =>
        /\ \A i \in DOMAIN cmds : ~IsFunnelEnable(i) /\ ~IsFunnelReset(i)
        /\ CycleDone => result = "error"
        /\ pc \notin {"funnelAdd", "funnelRemove", "sync"}

\* a cycle whose adds all succeeded met a public-port conflict while a funnel
\* of an earlier cycle was active
Wit_C11 ==
    /\ CycleDone
    /\ PublicPortConflict
    /\ failCount = 0
    /\ funnels # {}
    /\ result = "error"

\* the public ports the cycle's funnel declarations ask for
DeclaredFunnelPorts ==
    {desired[i].FunnelFunnelPort : i \in {j \in DOMAIN desired : desired[j].FunnelEnabled}}

\* C12: in a cycle no funnel reset follows a funnel-enable, and when the
\* daemon accepted every command of a cycle that had to remove a public port,
\* every declared funnel is active at the end.
Cex_C12 ==
    /\ \A i, j \in DOMAIN cmds :
          (i < j /\ IsFunnelEnable(i)) => ~IsFunnelReset(j)
    /\ ( /\ CycleDone
         /\ AllAccepted
         /\ result = "ok"
         /\ \E i \in DOMAIN cmds : IsFunnelReset(i) ) =>
          \A port \in DeclaredFunnelPorts : (MachineHost \o Colon \o port) \in funnels

\* the requests a step adds to the log of the cycle
NewRequests ==
    IF Len(http') > Len(http) THEN (Len(http) + 1)..Len(http') ELSE {}

\* C13: the only methods sent to the control plane are GET and PUT, and a
\* remote service definition that exists is never removed, through cycles,
\* container stops and the shutdown cleanup.
Prop_C13 ==
    /\ [](\A i \in DOMAIN http : http[i].method \in {"GET", "PUT"})
    /\ [][remote \subseteq remote']_vars

\* the process has stopped after its cleanup and a remote definition it
\* created for a container that no longer runs is still there
Wit_C13 ==
    /\ pc = "stopped"
    /\ remote # {}
    /\ ManagedEndpoints = {}

\* C14: a PUT for a name directly follows a GET for that name that returned
\* 404 in the same cycle; a cycle holds at most one GET and one PUT per name;
\* a PUT is only sent for a name that has no remote definition, and a PUT
\* that succeeded leaves one, so no later cycle sends another PUT for it.
Prop_C14 ==
    /\ [](\A i \in DOMAIN http :
            /\ http[i].method = "PUT" =>
                  /\ i - 1 \in DOMAIN http
                  /\ http[i - 1].method = "GET"
                  /\ http[i - 1].svc = http[i].svc
                  /\ http[i - 1].status = "404"
            /\ (http[i].method = "GET" /\ http[i].status = "200") =>
                  \A j \in DOMAIN http :
                      http[j].svc = http[i].svc => http[j].method # "PUT"
            /\ \A j \in DOMAIN http :
                  (http[j].svc = http[i].svc /\ http[j].method = http[i].method)
                      => j = i)
    /\ [][ /\ remote \subseteq remote'
           /\ \A i \in NewRequests :
                 http'[i].method = "PUT" =>
                     /\ http'[i].svc \notin remote
                     /\ http'[i].status = "200" => http'[i].svc \in remote' ]_vars

\* a cycle found the definition an earlier cycle had created and sent no PUT
Wit_C14 ==
    /\ CycleDone
    /\ \E i \in DOMAIN http : http[i].method = "GET" /\ http[i].status = "200"

\* the remote names of the declared services
DeclaredRemoteNames ==
    {<<"s", "v", "c", ":">> \o desired[i].ServiceName : i \in DOMAIN desired}

\* C15: a failed control-plane request does not change the result of the
\* cycle and every declared service name still gets its GET in that cycle.
Inv_C15 ==
    (CycleDone /\ apiKey # "" /\ AddFailures = 0 /\ ~PublicPortConflict) =>
        /\ result = "ok"
        /\ \A n \in DeclaredRemoteNames :
              \E i \in DOMAIN http : http[i].method = "GET" /\ http[i].svc = n

\* a cycle went on to another service name after a failed request and
\* returned success
Wit_C15 ==
    /\ CycleDone
    /\ result = "ok"
    /\ \E i, j \in DOMAIN http :
         /\ i < j
         /\ http[i].status = "error"
         /\ http[j].svc # http[i].svc

\* the managed service ids that were on the daemon when the cleanup began:
\* those still there and those a clear of the cleanup has removed
CleanupEntryIds ==
    {id \in DOMAIN daemon : StartsWithSvc(id)}
        \cup {cmds[i].svc : i \in {j \in DOMAIN cmds :
                                     cmds[j].op = "clear" /\ cmds[j].res = "ok"}}

\* a drain and a clear of the service were issued
DrainAndClearAttempted(id) ==
    /\ \E i \in DOMAIN cmds : cmds[i].op = "drain" /\ cmds[i].svc = id
    /\ \E i \in DOMAIN cmds : cmds[i].op = "clear" /\ cmds[i].svc = id

\* C16: once the cleanup has run with the serve status read and parsed, a
\* drain and a clear were attempted for every managed service id the daemon
\* held at cleanup entry.
Cex_C16 ==
    (pc = "stopped" /\ statusOk) =>
        \A id \in CleanupEntryIds : DrainAndClearAttempted(id)

\* C17: at most one Reconcile call is executing at any moment.
Inv_C17 ==
    /\ inflight <= 1
    /\ inflight = 1 <=> rpc = "reconciling"

\* a tick and a container event are both waiting while a cycle executes
Wit_C17 ==
    /\ rpc = "reconciling"
    /\ inflight = 1
    /\ cycle >= 2
    /\ tick
    /\ evq # <<>>

\* C18: of the container events that arrived while one cycle was executing,
\* at most one made the loop driver run a follow-up cycle.
Cex_C18 ==
    \A n \in 1..MaxCycles :
        Cardinality({i \in DOMAIN followups : followups[i] = n}) <= 1

\* the backend protocol of the matrix: as given, else by the container port
MatrixBackend == IF rin.protocol # "" THEN rin.protocol
                 ELSE IF rin.targetPort = "443" THEN "https" ELSE "http"

MatrixTCP == MatrixBackend \in {"tcp", "tls-terminated-tcp"}

\* the listen (port, protocol) of the matrix
MatrixListen ==
    CASE rin.servicePort = "" /\ rin.serviceProtocol = "" ->
            IF MatrixTCP THEN <<"80", MatrixBackend>> ELSE <<"80", "http">>
      [] rin.servicePort = "" /\ rin.serviceProtocol # "" ->
            <<IF rin.serviceProtocol = "https" THEN "443" ELSE "80", rin.serviceProtocol>>
      [] rin.servicePort # "" /\ rin.serviceProtocol = "" ->
            <<rin.servicePort,
              IF MatrixTCP THEN MatrixBackend
              ELSE IF rin.servicePort = "443" THEN "https" ELSE "http">>
      [] OTHER -> <<rin.servicePort, rin.serviceProtocol>>

\* C19: resolveProtocols returns the backend protocol and the listen port
\* and protocol of the smart-defaults matrix, and fails exactly when the
\* backend protocol or the listen protocol of the matrix is not a valid one.
Inv_C19 ==
    dpc = "resolved" =>
        IF /\ MatrixBackend \in {"http", "https", "https+insecure", "tcp",
                                 "tls-terminated-tcp"}
           /\ MatrixListen[2] \in {"http", "https", "tcp", "tls-terminated-tcp"}
        THEN /\ rout.err = ""
             /\ rout.protocol = MatrixBackend
             /\ rout.servicePort = MatrixListen[1]
             /\ rout.serviceProtocol = MatrixListen[2]
        ELSE rout.err # ""

\* container port 443 with only the listen port 8443 given: backend https,
\* listen (8443, http)
Wit_C19 ==
    /\ dpc = "resolved"
    /\ rin = [targetPort |-> "443", servicePort |-> "8443", serviceProtocol |-> "",
              protocol |-> ""]
    /\ rout = Resolved("https", "8443", "http", "")

\* the running container a declaration names
ContainerOf(svc) ==
    CHOOSE k \in DOMAIN listing : listing[k].id[1] = svc.ContainerID

\* the container has what a declaration needs: a service name, a backend
\* port, a valid backend protocol and a valid listen protocol
WellLabelled(cont) ==
    /\ cont.labels.name # ""
    /\ cont.labels.port # ""
    /\ resolveProtocols(cont.id, cont.labels.port, cont.labels.servicePort,
                        cont.labels.serviceProtocol, cont.labels.protocol).err = ""

\* the declarations of the result that come from the k-th running container
DeclarationsOf(k) ==
    LET mine(svc) == svc.ContainerID = listing[k].id[1]
    IN  SelectSeq(discovered.services, mine)

\* C20: every declaration comes from a container whose enable label is the
\* literal "true" and that has a service name, a backend port and valid
\* protocols; a container that lacks one of them yields no declaration, the
\* discovery still succeeds, and every container yields what it yields alone.
Inv_C20 ==
    dpc = "listed" =>
        /\ ~discovered.err
        /\ \A i \in DOMAIN discovered.services :
              /\ \E k \in DOMAIN listing :
                    listing[k].id[1] = discovered.services[i].ContainerID
              /\ listing[ContainerOf(discovered.services[i])].labels.enable = "true"
              /\ WellLabelled(listing[ContainerOf(discovered.services[i])])
        /\ \A k \in DOMAIN listing :
              \E p \in parseContainer(listing[k]) :
                  DeclarationsOf(k) = (IF p.err THEN <<>> ELSE p.services)

\* a container with an invalid backend protocol was skipped and the container
\* listed after it still produced its declaration
Wit_C20 ==
    /\ dpc = "listed"
    /\ Len(listing) = 2
    /\ listing[1].labels.protocol = "udp"
    /\ listing[2].labels.name = "db"
    /\ Len(discovered.services) = 1
    /\ discovered.services[1].ServiceName = "db"

\* the containerCtx of a running container
CtxOf(cont) ==
    [containerID      |-> cont.id,
     containerName    |-> cont.inspect.name,
     specifiedNetwork |-> cont.labels.network,
     inspect          |-> cont.inspect,
     tags             |-> <<>>,
     destIP           |-> "",
     isHostNetwork    |-> cont.inspect.mode = "host",
     isNoNetwork      |-> cont.inspect.mode = "none",
     isDirectMode     |-> cont.labels.direct # "false"]

\* the destination ports the resolution of a container port can succeed with
TargetsOf(cont, port) ==
    {d.port : d \in {x \in resolveDestPort(CtxOf(cont), port) : ~x.err}}

\* the (service name, listen port) pair of the primary entry of a container
PrimaryPair(cont) ==
    <<cont.labels.name,
      resolveProtocols(cont.id, cont.labels.port, cont.labels.servicePort,
                       cont.labels.serviceProtocol, cont.labels.protocol).servicePort>>

\* the indexed entry n of a container has a name, a port and valid protocols
ValidIndex(cont, n) ==
    LET e == cont.labels.indexed[n]
    IN  /\ e.name # ""
        /\ e.port # ""
        /\ resolveProtocols(cont.id, e.port, e.servicePort, e.serviceProtocol,
                            e.protocol).err = ""

\* its (service name, listen port) pair
IndexPair(cont, n) ==
    LET e == cont.labels.indexed[n]
    IN  <<e.name,
          resolveProtocols(cont.id, e.port, e.servicePort, e.serviceProtocol,
                           e.protocol).servicePort>>

\* the declarations of the k-th running container that come from its indexed
\* entry n: they carry its pair and the destination port of its container port
FromIndex(k, n) ==
    LET ds == DeclarationsOf(k)
        e  == listing[k].labels.indexed[n]
    IN  {i \in 2..Len(ds) :
           /\ <<ds[i].ServiceName, ds[i].Port>> = IndexPair(listing[k], n)
           /\ ds[i].TargetPort \in TargetsOf(listing[k], e.port)}

\* C21 as stated: in the declarations of one container no two entries have
\* the same (service name, listen port) pair; the primary comes first; an
\* indexed entry whose pair is that of the primary or of a lower declared
\* index is dropped; an indexed entry whose destination resolves and whose
\* pair is that of no earlier entry is declared, also when it shares its
\* port with another name.
Cex_C21 ==
    dpc = "listed" =>
        \A k \in DOMAIN listing :
            LET ds   == DeclarationsOf(k)
                cont == listing[k]
                idxs == {n \in DOMAIN cont.labels.indexed : ValidIndex(cont, n)}
            IN  ds # <<>> =>
                  /\ \A i, j \in DOMAIN ds :
                        (ds[i].ServiceName = ds[j].ServiceName /\ ds[i].Port = ds[j].Port)
                            => i = j
                  /\ <<ds[1].ServiceName, ds[1].Port>> = PrimaryPair(cont)
                  /\ ds[1].TargetPort \in TargetsOf(cont, cont.labels.port)
                  /\ \A n \in idxs :
                        /\ ( \/ IndexPair(cont, n) = PrimaryPair(cont)
                             \/ \E m \in idxs :
                                   /\ IntLess(m, n)
                                   /\ FromIndex(k, m) # {}
                                   /\ IndexPair(cont, m) = IndexPair(cont, n) )
                              => FromIndex(k, n) = {}
                        /\ ( /\ TargetsOf(cont, cont.labels.indexed[n].port) # {}
                             /\ IndexPair(cont, n) # PrimaryPair(cont)
                             /\ \A m \in idxs :
                                   IntLess(m, n) => IndexPair(cont, m) # IndexPair(cont, n) )
                              => FromIndex(k, n) # {}

\* the branch of the destination table a call falls in
DestBranch ==
    IF din.mode = "host" THEN "host"
    ELSE IF din.direct # "false" /\ din.mode = "none" THEN "directNone"
    ELSE IF din.direct # "false" THEN "direct"
    ELSE "published"

\* the published host port of the container port: host-config bindings
\* first, then network-settings
PublishedPort ==
    IF din.targetPort \in DOMAIN din.bindings /\ din.bindings[din.targetPort] # ""
    THEN din.bindings[din.targetPort]
    ELSE IF din.targetPort \in DOMAIN din.nsPorts
    THEN din.nsPorts[din.targetPort]
    ELSE ""

\* the networks direct mode may take the container IP from: the named one
\* (exact name, else names ending in _<name>), else bridge, else any network
\* with an address
CandidateNetworks ==
    LET nets == DOMAIN din.networks
    IN  IF din.network # <<>>
        THEN IF din.network \in nets THEN {din.network}
             ELSE {n \in nets : /\ Len(n) > Len(din.network)
                                /\ n[Len(n) - Len(din.network)] = "_"
                                /\ SubSeq(n, Len(n) - Len(din.network) + 1, Len(n))
                                       = din.network}
        ELSE IF <<"bridge">> \in nets /\ din.networks[<<"bridge">>] # ""
        THEN {<<"bridge">>}
        ELSE {n \in nets : din.networks[n] # ""}

\* the branches of the table other than direct mode
TableOutsideDirect ==
    /\ DestBranch = "host" => dout = Dest("localhost", din.targetPort, FALSE)
    /\ DestBranch = "directNone" => dout.err
    /\ DestBranch = "published" =>
          IF PublishedPort = "" THEN dout.err
          ELSE dout = Dest("localhost", PublishedPort, FALSE)

\* C22 as stated: resolveDestPort follows the branch table: host networking
\* gives (localhost, container port); else direct mode on "none" networking
\* fails; else direct mode gives (container IP, container port); else the
\* host port of the binding, host-config before network-settings, or an error
\* without a binding.
Cex_C22 ==
    dpc = "destResolved" =>
        /\ TableOutsideDirect
        /\ DestBranch = "direct" =>
              /\ ~dout.err
              /\ dout.port = din.targetPort
              /\ \E n \in DOMAIN din.networks : dout.ip = din.networks[n]

\* C22 as amended: the same table, where direct mode gives (container IP,
\* container port) with the address the container has on a candidate
\* network, and fails when there is no candidate network or the candidate
\* has no address.
Inv_C22 ==
    dpc = "destResolved" =>
        /\ TableOutsideDirect
        /\ DestBranch = "direct" =>
              IF dout.err
              THEN \/ CandidateNetworks = {}
                   \/ \E n \in CandidateNetworks : din.networks[n] = ""
              ELSE /\ dout.port = din.targetPort
                   /\ dout.ip # ""
                   /\ \E n \in CandidateNetworks : dout.ip = din.networks[n]
        /\ (DestBranch = "direct" /\ CandidateNetworks # {}
              /\ \A n \in CandidateNetworks : din.networks[n] # "") => ~dout.err

\* a container on host networking with no networks and no port bindings,
\* direct mode switched off: the destination is (localhost, container port)
Wit_C22 ==
    /\ dpc = "destResolved"
    /\ din.mode = "host"
    /\ din.direct = "false"
    /\ din.networks = <<>>
    /\ din.bindings = <<>>
    /\ din.nsPorts = <<>>
    /\ dout = Dest("localhost", "8080", FALSE)

\* the k-th running container declared the endpoint (name, listen port) with
\* a destination port of the container port
EndpointDeclared(k, pair, port) ==
    \E i \in DOMAIN DeclarationsOf(k) :
        /\ <<DeclarationsOf(k)[i].ServiceName, DeclarationsOf(k)[i].Port>> = pair
        /\ DeclarationsOf(k)[i].TargetPort \in TargetsOf(listing[k], port)

\* the destination of a container port resolves, whatever network the
\* resolution meets first
Resolves(cont, port) ==
    \A d \in resolveDestPort(CtxOf(cont), port) : ~d.err

\* the container is enabled and inspected and its primary labels are
\* complete and valid
Declarable(cont) ==
    /\ cont.labels.enable = "true"
    /\ WellLabelled(cont)
    /\ cont.inspect.ok

\* the container asks for no funnel, whose labels parseContainer reads after
\* the destination
AsksNoFunnel(cont) == cont.labels.funnelEnable # "true"

\* C23: a destination that does not resolve omits one endpoint only: every
\* endpoint of a container, the primary or an indexed one, whose destination
\* resolves is declared, whether or not another endpoint of the container
\* failed to resolve.
Cex_C23 ==
    dpc = "listed" =>
        \A k \in DOMAIN listing :
            LET cont == listing[k]
                idxs == {n \in DOMAIN cont.labels.indexed : ValidIndex(cont, n)}
            IN  (Declarable(cont) /\ AsksNoFunnel(cont)) =>
                  /\ Resolves(cont, cont.labels.port) =>
                        EndpointDeclared(k, PrimaryPair(cont), cont.labels.port)
                  /\ \A n \in idxs :
                        ( /\ Resolves(cont, cont.labels.indexed[n].port)
                          /\ IndexPair(cont, n) # PrimaryPair(cont)
                          /\ \A m \in idxs :
                                IntLess(m, n) => IndexPair(cont, m) # IndexPair(cont, n) )
                        => EndpointDeclared(k, IndexPair(cont, n),
                                            cont.labels.indexed[n].port)

\* the status is read back at the start of a cycle that re-runs the desired
\* list of a cycle whose commands all succeeded
ReadBack == AtDiff /\ repeat /\ statusOk

\* C24: when the status is read back after the serve commands of the
\* declarations succeeded, every declared endpoint that is observed has the
\* listen protocol and the destination URL of its declaration.
Cex_C24 ==
    ReadBack =>
        \A name \in EndpointNames, port \in EndpointPorts :
            ( /\ Declared(name, port) # {}
              /\ EndpointKey(name, port) \in DOMAIN current )
            => /\ current[EndpointKey(name, port)].ServiceName
                     = <<"s", "v", "c", ":">> \o name
               /\ current[EndpointKey(name, port)].Port = port
               /\ current[EndpointKey(name, port)].Protocol
                     = LastDeclared(name, port).ServiceProtocol
               /\ current[EndpointKey(name, port)].Destination
                     = DesiredUrl(LastDeclared(name, port))

\* the loop driver waits in its select after a cycle that returned an error
\* and shutdown has not been requested
FailedAndWaiting == rerr /\ rpc = "select" /\ ~cancelled

\* C25: a cycle that returns an error does not stop the loop driver: Run
\* goes back to its select when the failed call returns and, as long as
\* shutdown is not requested, it stays in its loop (at the select or in the
\* sleep that follows a stream error); a tick or an event it then receives
\* starts a new cycle; and while shutdown is not requested a waiting tick or
\* event is received.
Prop_C25 ==
    /\ [][(inflight' < inflight /\ rerr') => rpc' = "select"]_vars
    /\ []((rerr /\ inflight = 0 /\ ~cancelled) => rpc \in {"select", "sleeping"})
    /\ [][ (FailedAndWaiting /\ ((tick /\ ~tick') \/ Len(evq') < Len(evq)))
              => (cycle' = cycle + 1 /\ rpc' = "reconciling") ]_vars
    /\ \A n \in 0..(MaxCycles - 1) :
          (FailedAndWaiting /\ (tick \/ evq # <<>>) /\ cycle = n)
              ~> (cycle > n \/ cancelled)

\* the initial cycle returned an error and a second cycle is executing
Wit_C25 ==
    /\ rerr
    /\ cycle = 2
    /\ rpc = "reconciling"
    /\ inflight = 1
    /\ ~cancelled

\* C26: the funnel reconciliation runs in every cycle, whatever the outcome
\* of the service adds: a cycle that has returned, with funnel declarations
\* that have no public-port conflict, has issued a funnel-enable command.
Cex_C26 ==
    (CycleDone /\ ~PublicPortConflict /\ DeclaredFunnelPorts # {}) =>
        \E i \in DOMAIN cmds : IsFunnelEnable(i)

\* C27: without a credential no request is ever sent to the control plane,
\* and with a credential every cycle that has returned has sent a GET for
\* every declared service name.
Cex_C27 ==
    /\ apiKey = "" => http = <<>>
    /\ (CycleDone /\ apiKey # "") =>
          \A n \in DeclaredRemoteNames :
              \E i \in DOMAIN http : http[i].method = "GET" /\ http[i].svc = n

\* the public ports the funnel status of the cycle showed active
ActiveFunnelPorts == {curFunnels[h] : h \in DOMAIN curFunnels}

\* C28: for a declared funnel whose public port the funnel status of the
\* cycle shows active, the cycle issues no funnel-enable and no funnel-reset
\* command.
Cex_C28 ==
    \A port \in DeclaredFunnelPorts \cap ActiveFunnelPorts :
        \A i \in DOMAIN cmds :
            (IsFunnelEnable(i) \/ IsFunnelReset(i)) => cmds[i].port # port

\* the byte order of the characters that occur in keys
Ord(c) ==
    CASE c = "0" -> 48 [] c = "3" -> 51 [] c = "4" -> 52 [] c = "8" -> 56
      [] c = ":" -> 58
      [] c = "a" -> 97 [] c = "b" -> 98 [] c = "c" -> 99
      [] c = "s" -> 115 [] c = "v" -> 118
      [] OTHER -> 0

\* s sorts before t or equals it, as strings
RECURSIVE KeyLeq(_, _)
KeyLeq(s, t) ==
    IF s = <<>> THEN TRUE
    ELSE IF t = <<>> THEN FALSE
    ELSE IF Ord(Head(s)) # Ord(Head(t)) THEN Ord(Head(s)) < Ord(Head(t))
    ELSE KeyLeq(Tail(s), Tail(t))

\* the key of the endpoint a serve command is for
CmdKey(i) == cmds[i].svc \o <<":">> \o cmds[i].port

\* C29: the add/updates of a cycle are issued in ascending order of their
\* (service name, listen port) key, and so are its withdrawals, in the order
\* of the services they drain.
Cex_C29 ==
    \A i, j \in DOMAIN cmds :
        /\ (i < j /\ IsFirstServe(i) /\ IsFirstServe(j)) => KeyLeq(CmdKey(i), CmdKey(j))
        /\ ( /\ i < j
             /\ pc = "services"
             /\ cmds[i].by = "removeService" /\ cmds[i].op = "drain"
             /\ cmds[j].by = "removeService" /\ cmds[j].op = "drain" )
           => KeyLeq(cmds[i].svc, cmds[j].svc)

\* the proxy of the daemon's Web entry for exactly this service and port
\* (empty when the port has no Web entry)
ProxyOf(id, port) ==
    LET web == daemon[id].Web
        wk  == HostOf(id) \o <<":">> \o port
    IN  IF wk \in DOMAIN web THEN web[wk].Handlers["/"].Proxy ELSE <<>>

\* C30: the destination observed for (service, port) is the proxy of the Web
\* entry of exactly that port, never that of another port of the service.
Cex_C30 ==
    (AtDiff /\ statusOk) =>
        \A key \in DOMAIN current :
            current[key].Destination = ProxyOf(current[key].ServiceName, current[key].Port)


\* the commands a step appends to the command log
NewCmds ==
    IF Len(cmds') > Len(cmds) THEN (Len(cmds) + 1)..Len(cmds') ELSE {}

\* a cycle of Run is in flight
CycleInFlight == pc \in {"services", "funnelAdd", "funnelRemove", "sync"}

\* C31: when the root context is cancelled while a cycle is in flight, the
\* command that runs at that moment is killed and the commands of the same
\* call that would follow it are not started; from then on, until the cycle
\* returns, no serve, clear, drain or funnel command is started and neither
\* the serve configuration nor the funnels of the daemon change.
Prop_C31 ==
    /\ [][ (CycleInFlight /\ ~cancelled /\ cancelled' /\ NewCmds # {})
             => KilledRun([i \in 1..(Len(cmds') - Len(cmds)) |-> cmds'[Len(cmds) + i]]) ]_vars
    /\ [][ (CycleInFlight /\ cancelled)
             => /\ \A i \in NewCmds : cmds'[i].res = "ctx"
                /\ daemon' = daemon
                /\ funnels' = funnels ]_vars

\* a cycle has returned after the signal killed one of its commands and
\* refused to start a later one
Wit_C31 ==
    /\ cancelled
    /\ rpc = "select"
    /\ CycleDone
    /\ \E i, j \in DOMAIN cmds :
          i < j /\ cmds[i].res = "killed" /\ cmds[j].res = "ctx"


\* CleanupAllServices has been called
InCleanup == pc \in {"cleanupFunnels", "cleanupServices", "stopped"}

\* C32: the shutdown cleanup runs only once Run has returned; once it has
\* started no cycle runs any more, so no serve command follows a cleanup
\* command; and no command of the cleanup is refused or killed by the
\* cancelled root context: a command of the cleanup is cut only by the
\* deadline of the cleanup's own context.
Prop_C32 ==
    /\ [](InCleanup => (rpc = "returned" /\ cancelled))
    /\ [][ InCleanup =>
              /\ InCleanup'
              /\ \A i \in NewCmds :
                    /\ cmds'[i].op # "serve"
                    /\ cmds'[i].res \in {"ctx", "killed"} => expired'
                    /\ cmds'[i].res = "ctx" => (expired \/ i > Len(cmds) + 1) ]_vars

\* the cleanup, run after the signal, has drained and cleared a managed
\* service and the daemon accepted both commands
Wit_C32 ==
    /\ pc = "stopped"
    /\ cancelled
    /\ \E i \in DOMAIN cmds :
          /\ cmds[i].op = "clear"
          /\ cmds[i].res = "ok"
          /\ cmds[i].svc \notin DOMAIN daemon
          /\ i - 1 \in DOMAIN cmds
          /\ cmds[i - 1].op = "drain"
          /\ cmds[i - 1].res = "ok"


\* C33: once the signal has cancelled the root context, Run returns, from
\* its select, from inside a cycle or from the handling of a stream error,
\* and main then calls the shutdown cleanup, which is never called before
\* Run has returned.
Prop_C33 ==
    /\ cancelled ~> (rpc \in {"returned", "cleanup"})
    /\ cancelled ~> (rpc = "cleanup")
    /\ [][ (rpc' = "cleanup") => (rpc = "returned" /\ inflight = 0) ]_vars
    /\ []((rpc \in {"returned", "cleanup"}) => cancelled)

\* the cleanup is called after a shutdown that followed several cycles and
\* found a broken event stream
Wit_C33 ==
    /\ rpc = "cleanup"
    /\ cancelled
    /\ cycle >= 2
    /\ streamErr


\* the characters of the port strings the containers of the model carry
Spelling ==
    "" :> <<>>
    @@ "0" :> <<"0">>
    @@ "80" :> <<"8", "0">>
    @@ "443" :> <<"4", "4", "3">>
    @@ "5432" :> <<"5", "4", "3", "2">>
    @@ "8080" :> <<"8", "0", "8", "0">>
    @@ "8443" :> <<"8", "4", "4", "3">>
    @@ "9090" :> <<"9", "0", "9", "0">>
    @@ "9091" :> <<"9", "0", "9", "1">>
    @@ "9092" :> <<"9", "0", "9", "2">>
    @@ "9093" :> <<"9", "0", "9", "3">>
    @@ "10000" :> <<"1", "0", "0", "0", "0">>
    @@ "18080" :> <<"1", "8", "0", "8", "0">>
    @@ "19090" :> <<"1", "9", "0", "9", "0">>
    @@ "19092" :> <<"1", "9", "0", "9", "2">>
    @@ "28080" :> <<"2", "8", "0", "8", "0">>
    @@ "70000" :> <<"7", "0", "0", "0", "0">>
    @@ "8080/tcp" :> <<"8", "0", "8", "0", "/", "t", "c", "p">>
    @@ "2" :> <<"2">>
    @@ "1:2" :> <<"1", ":", "2">>

\* the text, a sequence of characters, is a decimal integer in 1..65535
IsPortNumber(text) ==
    /\ IsDigits(text)
    /\ ~Atoi(text).err
    /\ IntLeq(<<1>>, Atoi(text).val)
    /\ IntLeq(Atoi(text).val, <<6, 5, 5, 3, 5>>)

\* C34 as stated: every declaration the discovery hands to the reconciler
\* has a listen port and a destination port that are integers in 1..65535.
Cex_C34 ==
    (dpc = "listed") =>
        \A i \in DOMAIN discovered.services :
            /\ IsPortNumber(Spelling[discovered.services[i].Port])
            /\ IsPortNumber(Spelling[discovered.services[i].TargetPort])


\* the index texts N of the labels whose key has the shape
\* docktail.service.<N>.port with N a decimal numeral and that have a
\* sibling name label
DeclaringIndices(labels) ==
    {key[1] : key \in {k \in DOMAIN labels :
                          /\ k[2] = "port"
                          /\ IsDigits(k[1])
                          /\ <<k[1], "name">> \in DOMAIN labels}}

\* <<name, backend port>> of these labels, in ascending numeric order of N
RECURSIVE InIndexOrder(_, _)
InIndexOrder(labels, todo) ==
    IF todo = {} THEN <<>>
    ELSE LET n == CHOOSE x \in todo : \A y \in todo : IntLeq(Atoi(x).val, Atoi(y).val)
         IN  << <<labels[<<n, "name">>], labels[<<n, "port">>]>> >>
                \o InIndexOrder(labels, todo \ {n})

\* C35 as stated: the additional endpoints of a container are those of its
\* labels docktail.service.<N>.port with N a decimal non-negative integer
\* and a sibling name label, in ascending numeric order of N, after the
\* primary endpoint; other labels declare nothing.
Cex_C35 ==
    (dpc = "listed") =>
        \A k \in DOMAIN listing :
            \A n \in DOMAIN RawIndexed :
                (listing[k].id[1] = ToString(n)) =>
                    LET mine == DeclarationsOf(k)
                    IN  /\ mine # <<>>
                        /\ mine[1].ServiceName = listing[k].labels.name
                        /\ [i \in 1..(Len(mine) - 1) |->
                               <<mine[i + 1].ServiceName, mine[i + 1].TargetPort>>]
                             = InIndexOrder(RawIndexed[n], DeclaringIndices(RawIndexed[n]))


\* the container resolves its destinations in direct mode
DirectMode(cont) ==
    /\ cont.labels.direct # "false"
    /\ cont.inspect.mode \notin {"host", "none"}

\* C36: in direct mode the declarations of one container, primary and
\* indexed, all carry the destination host resolved for the primary
\* endpoint, one of the container's own addresses, and each carries as
\* destination port the container port of the label it comes from.
Inv_C36 ==
    (dpc = "listed") =>
        \A k \in DOMAIN listing :
            DirectMode(listing[k]) =>
                LET mine   == DeclarationsOf(k)
                    labels == listing[k].labels
                    ips    == {r.ip : r \in {x \in getContainerIP(listing[k].inspect,
                                                                  labels.network) : ~x.err}}
                IN  \A i \in DOMAIN mine :
                        /\ mine[i].IPAddress = mine[1].IPAddress
                        /\ mine[1].IPAddress \in ips
                        /\ mine[1].TargetPort = labels.port
                        /\ (i > 1) =>
                              \E n \in DOMAIN labels.indexed :
                                  /\ labels.indexed[n].name = mine[i].ServiceName
                                  /\ labels.indexed[n].port = mine[i].TargetPort

\* a container attached to two networks, neither of them the bridge,
\* declared a primary and two indexed endpoints at the same address
Wit_C36 ==
    /\ dpc = "listed"
    /\ \E k \in DOMAIN listing :
          /\ DirectMode(listing[k])
          /\ Cardinality({n \in DOMAIN listing[k].inspect.networks :
                             listing[k].inspect.networks[n] # ""}) >= 2
          /\ Len(DeclarationsOf(k)) = 3
          /\ DeclarationsOf(k)[1].TargetPort # DeclarationsOf(k)[2].TargetPort
          /\ DeclarationsOf(k)[1].IPAddress = DeclarationsOf(k)[3].IPAddress


\* C37: when the status of the daemon cannot be read or parsed, the cycle
\* takes the observed state as empty: it calls removeService for nothing (no
\* drain, no clear of a withdrawal) and it adds every desired endpoint (the
\* add is pending or its serve command was issued with the destination of
\* the declaration); in the shutdown cleanup a failed or unparsable status
\* is followed by no serve, drain or clear command.
Cex_C37 ==
    /\ (InCycle /\ ~statusOk) =>
          /\ current = EmptyMap
          /\ toRemove = {}
          /\ \A i \in DOMAIN cmds : cmds[i].by # "removeService" /\ cmds[i].op # "drain"
          /\ \A name \in EndpointNames, port \in EndpointPorts :
                Declared(name, port) # {} =>
                   \/ AddsOf(name, port) # {}
                   \/ \E i \in DOMAIN cmds :
                         /\ IsServe(i)
                         /\ cmds[i].svc = SvcPrefix \o name
                         /\ cmds[i].port = port
                         /\ cmds[i].dest = DesiredUrl(LastDeclared(name, port))
    /\ (InCleanup /\ ~statusOk) =>
          \A i \in DOMAIN cmds : cmds[i].op \notin ServiceOps


\* the first serve commands of the cycle for one (service name, listen port)
FirstServes(name, port) ==
    {i \in DOMAIN cmds : /\ IsFirstServe(i)
                         /\ cmds[i].svc = SvcPrefix \o name
                         /\ cmds[i].port = port}

\* C38: in one cycle addService is called at most once for a (service name,
\* listen port) pair, whatever the number of containers that declare it; the
\* declaration of the pair that is listed last is the one the diff compares
\* with the observed endpoint and the one the serve command carries.
Cex_C38 ==
    InCycle =>
        \A name \in EndpointNames, port \in EndpointPorts :
            /\ Cardinality(FirstServes(name, port)) <= 1
            /\ \A i \in FirstServes(name, port) :
                  /\ Declared(name, port) # {}
                  /\ cmds[i].dest = DesiredUrl(LastDeclared(name, port))
                  /\ cmds[i].flag = ProtocolFlag(LastDeclared(name, port).ServiceProtocol)
            /\ AtDiff =>
                  (AddsOf(name, port) # {} <=>
                      /\ Declared(name, port) # {}
                      /\ \/ Observed(name, port) = {}
                         \/ \E k \in Observed(name, port) :
                               Changed(current[k], LastDeclared(name, port)))


\* a destination was resolved for a container in direct mode that has a
\* network namespace of its own
DirectResolved ==
    /\ dpc = "destResolved"
    /\ din.mode = "default"
    /\ din.direct # "false"

\* an exact network-name match wins over a suffix match, and without a label
\* the network named bridge wins when it has an address
SelectionPrecedence ==
    DirectResolved =>
        /\ (din.network # <<>> /\ din.network \in DOMAIN din.networks) =>
              dout = (IF din.networks[din.network] = ""
                      THEN Dest("", "", TRUE)
                      ELSE Dest(din.networks[din.network], din.targetPort, FALSE))
        /\ (/\ din.network = <<>>
            /\ <<"bridge">> \in DOMAIN din.networks
            /\ din.networks[<<"bridge">>] # "") =>
              dout = Dest(din.networks[<<"bridge">>], din.targetPort, FALSE)

\* the destination selected is the only one getContainerIP can select for
\* the inspection result and the network label
SelectionDeterministic ==
    DirectResolved =>
        \A d \in resolveDestPort(DestCtx(din), din.targetPort) : d = dout

\* C39: in direct mode the address selected is a function of the inspection
\* result and the network label: the precedence of exact match and of bridge
\* holds, and a second resolution over the same inspection result selects
\* the same address.
Cex_C39 ==
    /\ SelectionPrecedence
    /\ SelectionDeterministic


\* every cycle lists the containers the cycle before it listed
FixedContainers == (pc = "idle" /\ pc' # "idle") => desired' = desired

\* the serve flag a listener of the daemon was configured with
FlagOf(tcpConfig) ==
    IF tcpConfig.HTTPS THEN "--https"
    ELSE IF tcpConfig.HTTP THEN "--http"
    ELSE "--tcp"

\* the managed endpoints the daemon serves: service name, listen port, the
\* serve flag of the listener and the target it proxies or forwards to
ServedEndpoints ==
    UNION { {<<SubSeq(id, 5, Len(id)), port, FlagOf(daemon[id].TCP[port]),
               IF FlagOf(daemon[id].TCP[port]) = "--tcp"
               THEN daemon[id].TCP[port].TCPForward
               ELSE ProxyOf(id, port)>> : port \in DOMAIN daemon[id].TCP} :
            id \in {x \in DOMAIN daemon : StartsWithSvc(x)} }

\* the desired endpoints: for every declared (service name, listen port)
\* pair the declaration listed last, with the serve flag of its listen
\* protocol and its destination URL
DeclaredEndpoints ==
    { <<d.ServiceName, d.Port, ProtocolFlag(d.ServiceProtocol), DesiredUrl(d)>> :
        d \in {LastDeclared(desired[i].ServiceName, desired[i].Port) : i \in DOMAIN desired} }

\* C40: once the set of running containers no longer changes, the cycles the
\* ticker starts against a daemon that accepts every command reach a state
\* where the managed endpoints of the daemon are the desired ones, with
\* their listen protocols and destinations, and every later cycle ends with
\* them equal again.
Cex_C40 ==
    (<>[][FixedContainers]_vars) =>
        <>[](pc = "idle" => ServedEndpoints = DeclaredEndpoints)

====
